---- MODULE Spec2Model ----
(***************************************************************************)
(* A model of nova/api/openstack/extensions.py: the ExtensionManager       *)
(* registry (register, sorted_extensions, get_resources,                   *)
(* get_controller_extensions), its loaders (load_extension,                *)
(* _load_extensions, load_standard_extensions), the ExtensionsController,  *)
(* the authorizer factories and the expected_errors decorator; and of      *)
(* test_rebuild of tools/xenserver/stress_test.py.                         *)
(*                                                                         *)
(* Python values are encoded as follows.                                   *)
(*   - a string is a sequence of character codes, compared as Python       *)
(*     compares strings (lexicographically, a proper prefix first);        *)
(*   - an attribute of an object is a record [tag, val]: tag "absent" (no  *)
(*     such attribute, getattr raises AttributeError), "none" (None) or    *)
(*     "val" (the string val);                                             *)
(*   - a method of an extension is a record [tag, val]: tag "absent" (no   *)
(*     such method), "raises" (the call raises AttributeError) or          *)
(*     "returns" (the call returns the list val);                          *)
(*   - a dict is the sequence of its (key, value) items in iteration       *)
(*     order, which is the insertion order.                                *)
(***************************************************************************)
EXTENDS Integers, Sequences, FiniteSets, TLC

VARIABLES
    extensions,       \* ExtensionManager.extensions: dict alias -> extension
    sorted_ext_list,  \* ExtensionManager.sorted_ext_list: None or a list
    op,               \* the operation that ran last ("none" after construction)
    arg,              \* its argument (the extension handed to register)
    outcome,          \* how it ended: "returned" or the exception it raised
    retval,           \* what it returned or yielded
    lastEvent,        \* history: the latest of construction ("init"), a
                      \* successful registration ("registered"), a read of the
                      \* sorted view ("read")
    wcall,            \* the last call of a handler wrapped by expected_errors
    acall,            \* the last call of an authorizer closure
    callLog,          \* the calls the last loader operation made, in order
    race              \* two threads inside register and sorted_extensions:
                      \* where each stands and its local variables

vars ==
    <<extensions, sorted_ext_list, op, arg, outcome, retval, lastEvent, wcall,
      acall, callLog, race>>

regVars == <<extensions, sorted_ext_list, op, arg, outcome, retval, lastEvent>>

(***************************************************************************)
(* Bounds of the model.                                                    *)
(***************************************************************************)
\* cls_list names at most this many factories.
MaxList == 2

\* At most this many extensions are registered in one run.
MaxExts == 2

\* At most this many commands of one run of the stress script fail.
MaxFaults == 2

\* A wrapped handler is called with an argument in 1..MaxArg.
MaxArg == 2

(***************************************************************************)
(* Python values.                                                          *)
(***************************************************************************)
Absent == [tag |-> "absent", val |-> <<>>]

None == [tag |-> "none", val |-> <<>>]

Val(s) == [tag |-> "val", val |-> s]

\* The aliases extensions are given: "a", "ab", "b" with a = 1, b = 2.
Aliases == {<<1>>, <<1, 2>>, <<2>>}

\* Python's s < t on strings.
RECURSIVE StrLess(_, _)
StrLess(s, t) ==
    IF s = <<>> THEN t # <<>>
    ELSE IF t = <<>> THEN FALSE
    ELSE IF Head(s) # Head(t) THEN Head(s) < Head(t)
    ELSE StrLess(Tail(s), Tail(t))

\* Python's x < y on the (alias, ext) items of the dict: the aliases decide,
\* the keys of a dict being pairwise distinct.
ItemLess(x, y) == StrLess(x[1], y[1])

RECURSIVE InsertItem(_, _)
InsertItem(x, s) ==
    IF s = <<>> THEN <<x>>
    ELSE IF ItemLess(x, Head(s)) THEN <<x>> \o s
    ELSE <<Head(s)>> \o InsertItem(x, Tail(s))

\* A mutant of sorted: the items are left in the dict's iteration order.
sorted_unsorted(items) == items

\* sorted(six.iteritems(self.extensions)).
RECURSIVE sorted(_)
sorted(items) ==
    IF items = <<>> THEN <<>>
    ELSE InsertItem(Head(items), sorted(Tail(items)))

\* The keys of a dict, and the value under a key.
Keys(d) == {d[i][1] : i \in 1..Len(d)}

Lookup(d, k) == d[CHOOSE i \in 1..Len(d) : d[i][1] = k][2]

\* The second components of a list of pairs.
Seconds(items) == [i \in 1..Len(items) |-> items[i][2]]

(***************************************************************************)
(* Resource and controller-extension records, and extension objects.       *)
(***************************************************************************)
\* A controller object: the alias of the extension that made it and its
\* number there; the manager's own ExtensionsController has owner <<>>.
Controller(owner, idx) == [owner |-> owner, idx |-> idx]

\* ResourceExtension(collection, controller); the other constructor
\* arguments keep their defaults.
ResourceExtension(collection, controller) ==
    [collection |-> collection, controller |-> controller]

\* ControllerExtension(extension, collection, controller); the extension is
\* named by its alias.
ControllerExtension(extension, collection, controller) ==
    [extension |-> extension, collection |-> collection,
     controller |-> controller]

Method(tag, val) == [tag |-> tag, val |-> val]

\* The resources an extension of alias a may contribute: one of its own
\* collection, and one that names its collection 'extensions' like the
\* built-in one.
Res1(a) == <<ResourceExtension("os-ext", Controller(a, 1))>>

Res2(a) ==
    <<ResourceExtension("extensions", Controller(a, 1)),
      ResourceExtension("os-ext", Controller(a, 2))>>

Ctl1(a) == <<ControllerExtension(a, "servers", Controller(a, 3))>>

\* The (get_resources, get_controller_extensions) methods of a subclass of
\* ExtensionDescriptor, which inherits both and may override them: they
\* return lists, or fail with an AttributeError of their own.
LegacyMethods(a) ==
    { <<Method("returns", Res2(a)), Method("returns", Ctl1(a))>>,
      <<Method("raises", <<>>), Method("raises", <<>>)>> }

\* ... of a subclass of V21APIExtensionBase, which must define both ("even
\* if they just return an empty list").
V21Methods(a) == { <<Method("returns", <<>>), Method("returns", <<>>)>> }

\* ... and of an object that derives from neither class ("you don't have to
\* derive from this class to have a valid extension"), which may lack them.
DuckMethods(a) ==
    { <<Method("absent", <<>>), Method("absent", <<>>)>>,
      <<Method("absent", <<>>), Method("returns", Ctl1(a))>>,
      <<Method("returns", Res1(a)), Method("absent", <<>>)>> }

Ext(cls, name, alias, updated, namespace, version, valid, methods) ==
    [cls |-> cls, name |-> name, alias |-> alias, updated |-> updated,
     namespace |-> namespace, version |-> version, is_valid |-> valid,
     get_resources |-> methods[1], get_controller_extensions |-> methods[2]]

\* Attribute values whose content no operation looks at.
NameStr == <<3>>

StampStr == <<4>>

NsStr == <<5>>

VersionStr == <<6>>

\* A subclass of ExtensionDescriptor: name, alias and updated are class
\* attributes (None unless the subclass sets them), namespace exists only if
\* the subclass defines it, and there is no version.
LegacyExt(name, alias, updated, namespace, methods) ==
    Ext("ExtensionDescriptor", name, alias, updated, namespace, Absent,
        "inherited", methods)

\* A subclass of V21APIExtensionBase: name, alias and version are properties
\* the subclass must define (they may return None); it has neither updated
\* nor namespace.
V21Ext(name, alias, version, methods) ==
    Ext("V21APIExtensionBase", name, alias, Absent, Absent, version,
        "inherited", methods)

\* An object of neither class, with an is_valid of its own that returns True.
DuckExt(alias, methods) ==
    Ext("duck", Val(NameStr), alias, Val(StampStr), Val(NsStr), Absent,
        "True", methods)

\* The extensions with every required attribute set.
CompleteExts ==
    UNION { { LegacyExt(Val(NameStr), Val(a), Val(StampStr), Val(NsStr), m) :
                m \in LegacyMethods(a) }
            \cup { V21Ext(Val(NameStr), Val(a), Val(VersionStr), m) :
                m \in V21Methods(a) }
            \cup { DuckExt(Val(a), m) : m \in DuckMethods(a) } :
            a \in Aliases }

FullMethods(a) == <<Method("returns", Res2(a)), Method("returns", Ctl1(a))>>

\* The alias of the extensions that miss another attribute.
IncompleteAlias == <<1, 2>>

\* The extensions of the two classes that miss one required attribute: it is
\* None, or (namespace, which ExtensionDescriptor does not define) absent.
IncompleteExts ==
    LET a == IncompleteAlias
        m == FullMethods(a)
    IN  { LegacyExt(None, Val(a), Val(StampStr), Val(NsStr), m),
          LegacyExt(Val(NameStr), None, Val(StampStr), Val(NsStr), m),
          LegacyExt(Val(NameStr), Val(a), None, Val(NsStr), m),
          LegacyExt(Val(NameStr), Val(a), Val(StampStr), None, m),
          LegacyExt(Val(NameStr), Val(a), Val(StampStr), Absent, m),
          V21Ext(None, Val(a), Val(VersionStr), m),
          V21Ext(Val(NameStr), None, Val(VersionStr), m),
          V21Ext(Val(NameStr), Val(a), None, m) }

\* The extension objects register is called with.
ExtObjects == CompleteExts \cup IncompleteExts

\* A few of them: an ExtensionDescriptor of each alias, and one is_valid
\* rejects.
FewExts ==
    {e \in CompleteExts :
        e.cls = "ExtensionDescriptor" /\ e.get_resources.tag = "returns"}
    \cup {e \in IncompleteExts :
            e.cls = "V21APIExtensionBase" /\ e.name.tag = "none"}

\* An object of neither class whose is_valid returns False.
FalseExts ==
    {[DuckExt(Val(<<2>>),
              <<Method("returns", Res1(<<2>>)), Method("absent", <<>>)>>)
        EXCEPT !.is_valid = "False"]}

\* The value of arg when the operation takes no extension.
NoArg == [cls |-> "none"]

(***************************************************************************)
(* ExtensionDescriptor.is_valid, V21APIExtensionBase.is_valid              *)
(***************************************************************************)
\* for attr in required: if getattr(self, attr) is None: raise
\* AttributeError; getattr itself raises AttributeError for an attribute
\* the object does not have.
RequiredMissing(e, required) ==
    \E attr \in required : e[attr].tag \in {"absent", "none"}

LegacyRequired == {"name", "alias", "updated", "namespace"}

V21Required == {"name", "alias", "version"}

\* A mutant of is_valid: namespace is not among the attributes checked.
is_valid_no_namespace(e) ==
    IF e.cls = "ExtensionDescriptor"
    THEN IF RequiredMissing(e, {"name", "alias", "updated"})
         THEN "AttributeError" ELSE "True"
    ELSE IF e.cls = "V21APIExtensionBase"
    THEN IF RequiredMissing(e, V21Required) THEN "AttributeError" ELSE "True"
    ELSE e.is_valid

\* The outcome of ext.is_valid(): "True", or the exception raised.
is_valid(e) ==
    IF e.cls = "ExtensionDescriptor"
    THEN IF RequiredMissing(e, LegacyRequired) THEN "AttributeError" ELSE "True"
    ELSE IF e.cls = "V21APIExtensionBase"
    THEN IF RequiredMissing(e, V21Required) THEN "AttributeError" ELSE "True"
    ELSE e.is_valid

(***************************************************************************)
(* ExtensionManager                                                        *)
(***************************************************************************)
\* _check_extension: False when is_valid raises AttributeError, else True
\* (what is_valid returns is not looked at).
_check_extension(e) == is_valid(e) # "AttributeError"

\* A mutant of register: the cache is kept when an extension is added.
register_keeps_cache(e) ==
    /\ op' = "register"
    /\ arg' = e
    /\ retval' = <<>>
    /\ IF ~_check_extension(e)
       THEN /\ outcome' = "returned"
            /\ UNCHANGED <<extensions, sorted_ext_list, lastEvent>>
       ELSE IF e.alias.val \in Keys(extensions)
       THEN /\ outcome' = "NovaException"
            /\ UNCHANGED <<extensions, sorted_ext_list, lastEvent>>
       ELSE /\ Len(extensions) < MaxExts
            /\ extensions' = Append(extensions, <<e.alias.val, e>>)
            /\ outcome' = "returned"
            /\ lastEvent' = "registered"
            /\ UNCHANGED sorted_ext_list
    /\ UNCHANGED <<wcall, acall, callLog, race>>

\* A mutant of register: a duplicate alias replaces the entry instead of
\* raising.
register_overwrite(e) ==
    /\ op' = "register"
    /\ arg' = e
    /\ retval' = <<>>
    /\ IF ~_check_extension(e)
       THEN /\ outcome' = "returned"
            /\ UNCHANGED <<extensions, sorted_ext_list, lastEvent>>
       ELSE /\ e.alias.val \in Keys(extensions) \/ Len(extensions) < MaxExts
            /\ extensions' =
                 IF e.alias.val \in Keys(extensions)
                 THEN [i \in 1..Len(extensions) |->
                         IF extensions[i][1] = e.alias.val
                         THEN <<e.alias.val, e>> ELSE extensions[i]]
                 ELSE Append(extensions, <<e.alias.val, e>>)
            /\ sorted_ext_list' = None
            /\ outcome' = "returned"
            /\ lastEvent' = "registered"
    /\ UNCHANGED <<wcall, acall, callLog, race>>

\* register(ext).
register(e) ==
    /\ op' = "register"
    /\ arg' = e
    /\ retval' = <<>>
    /\ IF ~_check_extension(e)
       THEN \* Do nothing if the extension doesn't check out
            /\ outcome' = "returned"
            /\ UNCHANGED <<extensions, sorted_ext_list, lastEvent>>
       ELSE IF e.alias.val \in Keys(extensions)
       THEN \* raise exception.NovaException("Found duplicate extension")
            /\ outcome' = "NovaException"
            /\ UNCHANGED <<extensions, sorted_ext_list, lastEvent>>
       ELSE /\ Len(extensions) < MaxExts
            /\ extensions' = Append(extensions, <<e.alias.val, e>>)
            /\ sorted_ext_list' = None
            /\ outcome' = "returned"
            /\ lastEvent' = "registered"
    /\ UNCHANGED <<wcall, acall, callLog, race>>

\* A mutant of is_loaded: the alias is looked up in the sorted view.
is_loaded_in_cache(alias) ==
    /\ op' = "is_loaded"
    /\ arg' = Val(alias)
    /\ outcome' = "returned"
    /\ retval' = /\ sorted_ext_list.tag = "val"
                 /\ alias \in Keys(sorted_ext_list.val)
    /\ UNCHANGED <<extensions, sorted_ext_list, lastEvent, wcall, acall,
                   callLog, race>>

\* is_loaded(alias): alias in self.extensions.
is_loaded(alias) ==
    /\ op' = "is_loaded"
    /\ arg' = Val(alias)
    /\ outcome' = "returned"
    /\ retval' = (alias \in Keys(extensions))
    /\ UNCHANGED <<extensions, sorted_ext_list, lastEvent, wcall, acall,
                   callLog, race>>

\* The list sorted_extensions iterates: the cache, computed first when it is
\* None.
SortedItems ==
    IF sorted_ext_list.tag = "none" THEN sorted(extensions)
    ELSE sorted_ext_list.val

\* What running the generator does to the manager: the cache is set.
ReadSortedView ==
    /\ sorted_ext_list' = Val(SortedItems)
    /\ lastEvent' = "read"
    /\ UNCHANGED extensions

\* sorted_extensions(), started and consumed to its end.
sorted_extensions ==
    /\ ReadSortedView
    /\ op' = "sorted_extensions"
    /\ arg' = NoArg
    /\ outcome' = "returned"
    /\ retval' = Seconds(SortedItems)
    /\ UNCHANGED <<wcall, acall, callLog, race>>

\* The built-in resource: ResourceExtension('extensions',
\* ExtensionsController(self)), made anew by each call.
BuiltinResource == ResourceExtension("extensions", Controller(<<>>, 0))

\* A mutant of ExtendResources: what an extension contributes is put before
\* what the extensions before it contributed.
RECURSIVE ExtendResources_prepends(_)
ExtendResources_prepends(exts) ==
    IF exts = <<>> THEN <<>>
    ELSE ExtendResources_prepends(Tail(exts))
         \o (IF Head(exts).get_resources.tag = "returns"
             THEN Head(exts).get_resources.val ELSE <<>>)

\* The loop of get_resources over the extensions: a missing get_resources
\* and an AttributeError raised by it are both passed over.
RECURSIVE ExtendResources(_)
ExtendResources(exts) ==
    IF exts = <<>> THEN <<>>
    ELSE (IF Head(exts).get_resources.tag = "returns"
          THEN Head(exts).get_resources.val ELSE <<>>)
         \o ExtendResources(Tail(exts))

\* A mutant of get_resources: the built-in resource is appended last.
get_resources_builtin_last ==
    /\ ReadSortedView
    /\ op' = "get_resources"
    /\ arg' = NoArg
    /\ outcome' = "returned"
    /\ retval' = ExtendResources(Seconds(SortedItems)) \o <<BuiltinResource>>
    /\ UNCHANGED <<wcall, acall, callLog, race>>

\* get_resources().
get_resources ==
    /\ ReadSortedView
    /\ op' = "get_resources"
    /\ arg' = NoArg
    /\ outcome' = "returned"
    /\ retval' = <<BuiltinResource>> \o ExtendResources(Seconds(SortedItems))
    /\ UNCHANGED <<wcall, acall, callLog, race>>

\* A mutant of ExtendControllers: the AttributeError of a missing method is
\* not caught.
RECURSIVE ExtendControllers_absent_raises(_)
ExtendControllers_absent_raises(exts) ==
    IF exts = <<>> THEN [outcome |-> "returned", val |-> <<>>]
    ELSE LET m == Head(exts).get_controller_extensions
             rest == ExtendControllers_absent_raises(Tail(exts))
         IN  IF m.tag # "returns"
             THEN [outcome |-> "AttributeError", val |-> <<>>]
             ELSE IF rest.outcome = "returned"
             THEN [outcome |-> "returned", val |-> m.val \o rest.val]
             ELSE rest

\* The loop of get_controller_extensions: a missing method is passed over,
\* an AttributeError raised by the method's call is not caught.
RECURSIVE ExtendControllers(_)
ExtendControllers(exts) ==
    IF exts = <<>> THEN [outcome |-> "returned", val |-> <<>>]
    ELSE LET m == Head(exts).get_controller_extensions
             rest == ExtendControllers(Tail(exts))
         IN  IF m.tag = "absent" THEN rest
             ELSE IF m.tag = "raises"
             THEN [outcome |-> "AttributeError", val |-> <<>>]
             ELSE IF rest.outcome = "returned"
             THEN [outcome |-> "returned", val |-> m.val \o rest.val]
             ELSE rest

\* get_controller_extensions().
get_controller_extensions ==
    /\ ReadSortedView
    /\ op' = "get_controller_extensions"
    /\ arg' = NoArg
    /\ outcome' = ExtendControllers(Seconds(SortedItems)).outcome
    /\ retval' = ExtendControllers(Seconds(SortedItems)).val
    /\ UNCHANGED <<wcall, acall, callLog, race>>

(***************************************************************************)
(* expected_errors                                                         *)
(***************************************************************************)
\* The classes of the exceptions a handler raises, each with its base class:
\* builtins, webob.exc and nova.exception.
BaseClass(cls) ==
    CASE cls = "Exception" -> "BaseException"
      [] cls = "SystemExit" -> "BaseException"
      [] cls = "KeyError" -> "Exception"
      [] cls = "ImportError" -> "Exception"
      [] cls = "ValueError" -> "Exception"
      [] cls = "AttributeError" -> "Exception"
      [] cls = "WSGIHTTPException" -> "Exception"
      [] cls = "HTTPBadRequest" -> "WSGIHTTPException"
      [] cls = "HTTPNotFound" -> "WSGIHTTPException"
      [] cls = "HTTPInternalServerError" -> "WSGIHTTPException"
      [] cls = "NovaException" -> "Exception"
      [] cls = "Forbidden" -> "NovaException"
      [] cls = "PolicyNotAuthorized" -> "Forbidden"
      [] cls = "ValidationError" -> "NovaException"
      [] OTHER -> "object"

\* The status code an exception of a class carries (0: it has none).
ClassCode(cls) ==
    CASE cls = "HTTPBadRequest" -> 400
      [] cls = "HTTPNotFound" -> 404
      [] cls = "HTTPInternalServerError" -> 500
      [] cls = "NovaException" -> 500
      [] cls = "Forbidden" -> 403
      [] cls = "PolicyNotAuthorized" -> 403
      [] cls = "ValidationError" -> 400
      [] OTHER -> 0

\* isinstance(exc, cls).
RECURSIVE IsSubclass(_, _)
IsSubclass(c, cls) ==
    IF c = cls THEN TRUE
    ELSE IF c = "object" THEN FALSE
    ELSE IsSubclass(BaseClass(c), cls)

IsInstance(exc, cls) == IsSubclass(exc.cls, cls)

\* An exception object: its class, its code, who made it (oid 0: the
\* wrapper, otherwise the handler) and, for the wrapper's own, the type its
\* explanation names.
Exc(cls, oid, explanation) ==
    [cls |-> cls, code |-> ClassCode(cls), oid |-> oid,
     explanation |-> explanation]

NoExc == Exc("object", 0, "")

\* The classes of the exceptions the handlers raise.
RaisedClasses ==
    {"HTTPBadRequest", "HTTPNotFound", "HTTPInternalServerError",
     "Forbidden", "PolicyNotAuthorized", "ValidationError", "NovaException",
     "KeyError", "SystemExit"}

\* A handler either returns (a value made from its argument) or raises.
Handlers ==
    {[kind |-> "returns", exc |-> NoExc]}
    \cup {[kind |-> "raises", exc |-> Exc(c, 1, "")] : c \in RaisedClasses}

\* The codes a decorator declares.
Codes == {400, 404, 500}

\* The argument of expected_errors: one int, or a collection of ints.
IntErrors(c) == [kind |-> "int", int |-> c, coll |-> {}]

CollErrors(S) == [kind |-> "coll", int |-> 0, coll |-> S]

ErrorsArgs ==
    {IntErrors(c) : c \in Codes} \cup {CollErrors(S) : S \in SUBSET Codes}

\* The value the returning handler makes from its argument.
HandlerValue(a) == a + 100

\* A mutant of t_errors: the int is not made a tuple.
t_errors_int_unwrapped(errors) == errors.coll

\* if isinstance(errors, int): t_errors = (errors,) else: t_errors = errors
t_errors(errors) ==
    IF errors.kind = "int" THEN {errors.int} ELSE errors.coll

\* A mutant of Classify: Forbidden has no branch of its own.
Classify_no_forbidden(errors, exc) ==
    IF ~IsInstance(exc, "Exception") THEN "uncaught"
    ELSE IF IsInstance(exc, "WSGIHTTPException")
    THEN IF exc.code \in t_errors(errors) THEN "raise" ELSE "replace"
    ELSE IF IsInstance(exc, "ValidationError") THEN "raise"
    ELSE "replace"

\* A mutant of Classify: every transport-level error is re-raised.
Classify_any_http(errors, exc) ==
    IF ~IsInstance(exc, "Exception") THEN "uncaught"
    ELSE IF IsInstance(exc, "WSGIHTTPException") THEN "raise"
    ELSE IF IsInstance(exc, "Forbidden") THEN "raise"
    ELSE IF IsInstance(exc, "ValidationError") THEN "raise"
    ELSE "replace"

\* The except clause of wrapped: the exception is not caught ("except
\* Exception"), re-raised by a bare raise, or falls through to the
\* replacement by HTTPInternalServerError.
Classify(errors, exc) ==
    IF ~IsInstance(exc, "Exception") THEN "uncaught"
    ELSE IF IsInstance(exc, "WSGIHTTPException")
    THEN IF exc.code \in t_errors(errors) THEN "raise" ELSE "replace"
    ELSE IF IsInstance(exc, "Forbidden") THEN "raise"
    ELSE IF IsInstance(exc, "ValidationError") THEN "raise"
    ELSE "replace"

\* raise webob.exc.HTTPInternalServerError(explanation=msg), msg ending in
\* type(exc).
InternalServerError(exc) == Exc("HTTPInternalServerError", 0, exc.cls)

\* The result of a call: it returned value or raised exc, after calling the
\* handler with calls, and logged or not.
Result(kind, value, exc, calls, logged) ==
    [kind |-> kind, value |-> value, exc |-> exc, calls |-> calls,
     logged |-> logged]

\* A mutant of wrapped: a failed handler is called once more.
wrapped_retry(errors, f, a) ==
    IF f.kind = "returns"
    THEN Result("returned", HandlerValue(a), NoExc, <<a>>, FALSE)
    ELSE IF Classify(errors, f.exc) = "replace"
    THEN Result("raised", 0, InternalServerError(f.exc), <<a, a>>, TRUE)
    ELSE Result("raised", 0, f.exc, <<a, a>>, FALSE)

\* wrapped(*args, **kwargs) of expected_errors(errors)(f).
wrapped(errors, f, a) ==
    IF f.kind = "returns"
    THEN Result("returned", HandlerValue(a), NoExc, <<a>>, FALSE)
    ELSE IF Classify(errors, f.exc) = "replace"
    THEN Result("raised", 0, InternalServerError(f.exc), <<a>>, TRUE)
    ELSE Result("raised", 0, f.exc, <<a>>, FALSE)

\* One call of a wrapped handler.
call_wrapped(errors, f, a) ==
    /\ wcall' = [called |-> TRUE, errors |-> errors, f |-> f, a |-> a,
                 result |-> wrapped(errors, f, a)]
    /\ UNCHANGED <<regVars, acall, callLog, race>>

(***************************************************************************)
(* The authorizers.                                                        *)
(*                                                                         *)
(* A closure is the record of the variables it captured; a dict (a target) *)
(* is the set of its (key, value) items; the policy evaluator is a state   *)
(* handed to enforce.                                                      *)
(***************************************************************************)
\* ':' of the permission strings.
Colon == <<58>>

\* '_extension'.
ExtensionSuffix == <<95, 101, 120, 116, 101, 110, 115, 105, 111, 110>>

\* 'os_compute_api'.
OsComputeApi ==
    <<111, 115, 95, 99, 111, 109, 112, 117, 116, 101, 95, 97, 112, 105>>

\* The api names, the extension (feature) names and the action names the
\* closures are made and called with: "c", "v"; "q"; "" and "s".
ApiNames == {<<99>>, <<118>>}

ExtensionNames == {<<113>>}

ActionArgs == {None, Val(<<>>), Val(<<115>>)}

\* The request contexts.
Context(project_id, user_id) ==
    [project_id |-> project_id, user_id |-> user_id]

Contexts == {Context(1, 1), Context(2, 1)}

\* The targets a caller hands over: none, an empty dict, the dict of
\* project 1.
TargetArgs ==
    {None, Val({}), Val({<<"project_id", 1>>, <<"user_id", 1>>})}

\* What the policy evaluator says of a permission string: "owner" allows
\* the call when the target is of the context's project and refuses it with
\* PolicyNotAuthorized otherwise; a class name is the exception every check
\* of the string ends with.  A rule governs every permission string, those
\* with an action part, or those of the extension namespace; a string of no
\* rule is allowed.
Policy(governs, check) == [governs |-> governs, check |-> check]

Policies ==
    {Policy("everything", "owner"), Policy("with action", "PolicyNotAuthorized"),
     Policy("of extensions", "Forbidden"), Policy("with action", "NovaException")}

\* The number of ':' in a string.
RECURSIVE Colons(_)
Colons(s) ==
    IF s = <<>> THEN 0
    ELSE (IF <<Head(s)>> = Colon THEN 1 ELSE 0) + Colons(Tail(s))

\* A string has '_extension:' in it.
HasSuffix(s) ==
    \E i \in 1..Len(s) :
        /\ i + Len(ExtensionSuffix) <= Len(s)
        /\ SubSeq(s, i, i + Len(ExtensionSuffix)) = ExtensionSuffix \o Colon

Governs(policy, act) ==
    CASE policy.governs = "everything" -> TRUE
      [] policy.governs = "with action" -> Colons(act) = 2
      [] policy.governs = "of extensions" -> HasSuffix(act)

\* nova.policy.enforce(context, action, target): the class of the exception
\* it raises, "returned" when it raises none.
enforce(policy, context, act, target) ==
    IF ~Governs(policy, act) THEN "returned"
    ELSE IF policy.check = "owner"
    THEN IF <<"project_id", context.project_id>> \in target
         THEN "returned" ELSE "PolicyNotAuthorized"
    ELSE policy.check

\* One call of enforce, as the closure's result keeps it.
Enforced(context, act, target, raised) ==
    [context |-> context, action |-> act, target |-> target,
     raised |-> raised]

\* What a call of a closure comes to: it returned value ("None", "True",
\* "False") or raised exc, after these calls of enforce.
AuthResult(kind, value, exc, enforced) ==
    [kind |-> kind, value |-> value, exc |-> exc, enforced |-> enforced]

\* core_authorizer(api_name, extension_name): the closure authorize.
core_authorizer(api_name, extension_name) ==
    [api_name |-> api_name, extension_name |-> extension_name]

\* A mutant of authorize: an empty target is replaced as a missing one is.
authorize_falsy_target(closure, policy, context, target, action) ==
    LET t == IF target.tag = "none" \/ target.val = {}
             THEN {<<"project_id", context.project_id>>,
                   <<"user_id", context.user_id>>}
             ELSE target.val
        act == IF action.tag = "none"
               THEN closure.api_name \o Colon \o closure.extension_name
               ELSE closure.api_name \o Colon \o closure.extension_name
                      \o Colon \o action.val
        raised == enforce(policy, context, act, t)
    IN  IF raised = "returned"
        THEN AuthResult("returned", "None", NoExc,
                        <<Enforced(context, act, t, raised)>>)
        ELSE AuthResult("raised", "None", Exc(raised, 1, ""),
                        <<Enforced(context, act, t, raised)>>)

\* authorize(context, target=None, action=None) of core_authorizer.
authorize(closure, policy, context, target, action) ==
    LET t == IF target.tag = "none"
             THEN {<<"project_id", context.project_id>>,
                   <<"user_id", context.user_id>>}
             ELSE target.val
        act == IF action.tag = "none"
               THEN closure.api_name \o Colon \o closure.extension_name
               ELSE closure.api_name \o Colon \o closure.extension_name
                      \o Colon \o action.val
        raised == enforce(policy, context, act, t)
    IN  IF raised = "returned"
        THEN AuthResult("returned", "None", NoExc,
                        <<Enforced(context, act, t, raised)>>)
        ELSE AuthResult("raised", "None", Exc(raised, 1, ""),
                        <<Enforced(context, act, t, raised)>>)

\* extension_authorizer(api_name, extension_name).
extension_authorizer(api_name, extension_name) ==
    core_authorizer(api_name \o ExtensionSuffix, extension_name)

\* hard_authorizer(api_name, extension_name), hard_authorizer being one of the
\* two factories of raising closures, named.
CallFactory(hard_authorizer, api_name, extension_name) ==
    CASE hard_authorizer = "core_authorizer" ->
           core_authorizer(api_name, extension_name)
      [] hard_authorizer = "extension_authorizer" ->
           extension_authorizer(api_name, extension_name)

\* _soft_authorizer(hard_authorizer, api_name, extension_name): the closure
\* authorize, which holds hard_authorize.
_soft_authorizer(hard_authorizer, api_name, extension_name) ==
    [hard_authorize |-> CallFactory(hard_authorizer, api_name, extension_name)]

\* A mutant of soft_authorize: a refusal is answered True.
soft_authorize_always_true(closure, policy, context, target, action) ==
    LET r == authorize(closure.hard_authorize, policy, context, target,
                       action)
    IN  IF r.kind = "returned" \/ IsInstance(r.exc, "Forbidden")
        THEN AuthResult("returned", "True", NoExc, r.enforced)
        ELSE r

\* A mutant of soft_authorize: every Exception is answered False.
soft_authorize_except_exception(closure, policy, context, target, action) ==
    LET r == authorize(closure.hard_authorize, policy, context, target,
                       action)
    IN  IF r.kind = "returned"
        THEN AuthResult("returned", "True", NoExc, r.enforced)
        ELSE IF IsInstance(r.exc, "Exception")
        THEN AuthResult("returned", "False", NoExc, r.enforced)
        ELSE r

\* authorize(context, target=None, action=None) of _soft_authorizer.
soft_authorize(closure, policy, context, target, action) ==
    LET r == authorize(closure.hard_authorize, policy, context, target,
                       action)
    IN  IF r.kind = "returned"
        THEN AuthResult("returned", "True", NoExc, r.enforced)
        ELSE IF IsInstance(r.exc, "Forbidden")
        THEN AuthResult("returned", "False", NoExc, r.enforced)
        ELSE r

soft_extension_authorizer(api_name, extension_name) ==
    _soft_authorizer("extension_authorizer", api_name, extension_name)

soft_core_authorizer(api_name, extension_name) ==
    _soft_authorizer("core_authorizer", api_name, extension_name)

os_compute_authorizer(extension_name) ==
    core_authorizer(OsComputeApi, extension_name)

os_compute_soft_authorizer(extension_name) ==
    soft_core_authorizer(OsComputeApi, extension_name)

\* The factories of raising closures and those of boolean closures.
HardFactories == {"core_authorizer", "extension_authorizer"}

SoftFactories == {"soft_core_authorizer", "soft_extension_authorizer"}

\* A closure is made by a factory and called once.
call_authorizer(factory, api_name, extension_name, policy, context, target, action) ==
    /\ acall' =
         [called |-> TRUE, factory |-> factory, api_name |-> api_name,
          extension_name |-> extension_name, policy |-> policy,
          context |-> context, target |-> target, action |-> action,
          result |->
            CASE factory = "core_authorizer" ->
                   authorize(core_authorizer(api_name, extension_name),
                             policy, context, target, action)
              [] factory = "extension_authorizer" ->
                   authorize(extension_authorizer(api_name, extension_name),
                             policy, context, target, action)
              [] factory = "soft_core_authorizer" ->
                   soft_authorize(
                       soft_core_authorizer(api_name, extension_name),
                       policy, context, target, action)
              [] factory = "soft_extension_authorizer" ->
                   soft_authorize(
                       soft_extension_authorizer(api_name, extension_name),
                       policy, context, target, action)]
    /\ UNCHANGED <<regVars, wcall, callLog, race>>

\* A closure of the os_compute factories is made and called once.
call_os_compute_authorizer(factory, extension_name, policy, context, target, action) ==
    /\ acall' =
         [called |-> TRUE, factory |-> factory, api_name |-> OsComputeApi,
          extension_name |-> extension_name, policy |-> policy,
          context |-> context, target |-> target, action |-> action,
          result |->
            CASE factory = "os_compute_authorizer" ->
                   authorize(os_compute_authorizer(extension_name),
                             policy, context, target, action)
              [] factory = "os_compute_soft_authorizer" ->
                   soft_authorize(os_compute_soft_authorizer(extension_name),
                                  policy, context, target, action)]
    /\ UNCHANGED <<regVars, wcall, callLog, race>>

(***************************************************************************)
(* ExtensionManager.load_extension, ExtensionManager._load_extensions      *)
(*                                                                         *)
(* A factory is the record of what calling it with the manager does: the   *)
(* extensions it hands to register, in order, and how it ends.  The        *)
(* manager, where an operator works on it, is the record of its two        *)
(* attributes.                                                             *)
(***************************************************************************)
\* 'contrib'
Contrib ==
    <<99, 111, 110, 116, 114, 105, 98>>

\* 'legacy_v2.contrib'
LegacyContrib ==
    <<108, 101, 103, 97, 99, 121, 95, 118, 50, 46, 99, 111, 110, 116, 114,
      105, 98>>

\* 'nova.api.openstack.compute.contrib'
DeprecatedPrefix ==
    <<110, 111, 118, 97, 46, 97, 112, 105, 46, 111, 112, 101, 110, 115,
      116, 97, 99, 107, 46, 99, 111, 109, 112, 117, 116, 101, 46, 99, 111,
      110, 116, 114, 105, 98>>

\* 'nova.api.openstack.compute.legacy_v2.contrib', where the modules are.
CurrentPrefix ==
    <<110, 111, 118, 97, 46, 97, 112, 105, 46, 111, 112, 101, 110, 115,
      116, 97, 99, 107, 46, 99, 111, 109, 112, 117, 116, 101, 46, 108, 101,
      103, 97, 99, 121, 95, 118, 50, 46, 99, 111, 110, 116, 114, 105, 98>>

\* The rest of the dotted paths load_extension is called with.
Path ==
    [hosts |->  \* '.hosts.Hosts'
        <<46, 104, 111, 115, 116, 115, 46, 72, 111, 115, 116, 115>>,
     contrib_x |->  \* '.contrib_x.X'
        <<46, 99, 111, 110, 116, 114, 105, 98, 95, 120, 46, 88>>,
     s_hosts |->  \* 's.Hosts'
        <<115, 46, 72, 111, 115, 116, 115>>,
     missing |->  \* 'missing.Gone'
        <<109, 105, 115, 115, 105, 110, 103, 46, 71, 111, 110, 101>>,
     broken |->  \* 'broken'
        <<98, 114, 111, 107, 101, 110>>]

\* str.startswith(prefix).
startswith(s, prefix) ==
    /\ Len(prefix) <= Len(s)
    /\ SubSeq(s, 1, Len(prefix)) = prefix

\* str.replace(old, new): every occurrence of old, found from the left and
\* not overlapping, is replaced.
RECURSIVE replace(_, _, _)
replace(s, old, new) ==
    IF Len(s) < Len(old) THEN s
    ELSE IF SubSeq(s, 1, Len(old)) = old
    THEN new \o replace(SubSeq(s, Len(old) + 1, Len(s)), old, new)
    ELSE <<Head(s)>> \o replace(Tail(s), old, new)

Mgr(exts, cache) == [extensions |-> exts, sorted_ext_list |-> cache]

\* The aliases of the registration map, in its order.
Firsts(d) == [i \in 1..Len(d) |-> d[i][1]]

\* register(ext) on a manager: the manager after it and how it ended.
RegisterOn(mgr, e) ==
    IF ~_check_extension(e)
    THEN [mgr |-> mgr, raised |-> "returned"]
    ELSE IF e.alias.val \in Keys(mgr.extensions)
    THEN [mgr |-> mgr, raised |-> "NovaException"]
    ELSE [mgr |-> Mgr(Append(mgr.extensions, <<e.alias.val, e>>), None),
          raised |-> "returned"]

\* A factory: calling it with the manager registers these extensions one
\* after the other and then ends with raises ("returned", or the class of
\* the exception it raises); an exception of register ends it at once.
Factory(name, registers, raises) ==
    [name |-> name, registers |-> registers, raises |-> raises]

NoFactory == Factory("none", <<>>, "returned")

\* The extensions the factories make: one of ExtensionDescriptor with alias
\* "a", one of V21APIExtensionBase with alias "b".
ExtA ==
    LegacyExt(Val(NameStr), Val(<<1>>), Val(StampStr), Val(NsStr),
              FullMethods(<<1>>))

ExtB ==
    V21Ext(Val(NameStr), Val(<<2>>), Val(VersionStr),
           <<Method("returns", <<>>), Method("returns", <<>>)>>)

\* Two extension classes, whose constructor registers the new object, a
\* factory that fails and one that exits the process.
Admin_actions == Factory("Admin_actions", <<ExtA>>, "returned")

Hosts == Factory("Hosts", <<ExtB>>, "returned")

Failing == Factory("Failing", <<>>, "KeyError")

Exiting == Factory("Exiting", <<>>, "SystemExit")

\* factory(self).
RECURSIVE CallFactoryOn(_, _, _)
CallFactoryOn(mgr, registers, raises) ==
    IF registers = <<>> THEN [mgr |-> mgr, raised |-> raises]
    ELSE LET r == RegisterOn(mgr, Head(registers))
         IN  IF r.raised # "returned" THEN r
             ELSE CallFactoryOn(r.mgr, Tail(registers), raises)

\* What importutils.import_class finds: under these paths a class, under
\* 'broken' a module that fails with ValueError when imported, under every
\* other path nothing (ImportError).
Module(path, raises, factory) ==
    [path |-> path, raises |-> raises, factory |-> factory]

\* The strings of load_standard_extensions.
\* '.'
Dot == <<46>>

\* '.py'
DotPy == <<46, 112, 121>>

\* '__init__'
Init__ == <<95, 95, 105, 110, 105, 116, 95, 95>>

\* '.extension'
DotExtension == <<46, 101, 120, 116, 101, 110, 115, 105, 111, 110>>

\* '__init__.py'
InitPy == <<95, 95, 105, 110, 105, 116, 95, 95, 46, 112, 121>>

\* The names in the directory tree load_standard_extensions walks: of the
\* package it stands for, of files, of directories, of a class, and the
\* ends of the paths of two classes.
Name ==
    [package |->  \* 'p'
        <<112>>,
     foo_py |->  \* 'foo.py'
        <<102, 111, 111, 46, 112, 121>>,
     notes_txt |->  \* 'notes.txt'
        <<110, 111, 116, 101, 115, 46, 116, 120, 116>>,
     bar_py |->  \* 'bar.py'
        <<98, 97, 114, 46, 112, 121>>,
     exit_py |->  \* 'exit.py'
        <<101, 120, 105, 116, 46, 112, 121>>,
     plain |->  \* 'plain'
        <<112, 108, 97, 105, 110>>,
     noinit |->  \* 'noinit'
        <<110, 111, 105, 110, 105, 116>>,
     hook |->  \* 'hook'
        <<104, 111, 111, 107>>,
     bad |->  \* 'bad'
        <<98, 97, 100>>,
     boom |->  \* 'boom'
        <<98, 111, 111, 109>>,
     nest |->  \* 'nest'
        <<110, 101, 115, 116>>,
     Foo |->  \* 'Foo'
        <<70, 111, 111>>,
     foo_Foo |->  \* '.foo.Foo'
        <<46, 102, 111, 111, 46, 70, 111, 111>>,
     exit_Exit |->  \* '.exit.Exit'
        <<46, 101, 120, 105, 116, 46, 69, 120, 105, 116>>]

\* What importutils.import_class finds under the package: the class Foo of
\* every module foo, a class Exit whose constructor exits the process, the
\* extension hooks of the packages hook, nest.hook and boom (the last one
\* fails when called); importing the package bad fails with ValueError.
PackageModules ==
    { Module(Name.package \o relpkg \o Name.foo_Foo, "returned", Admin_actions) :
        relpkg \in {<<>>, Dot \o Name.plain, Dot \o Name.hook,
                    Dot \o Name.hook \o Dot \o Name.plain, Dot \o Name.nest \o Dot \o Name.hook,
                    Dot \o Name.boom} }
    \cup
    {Module(Name.package \o Name.exit_Exit, "returned", Exiting),
     Module(Name.package \o Dot \o Name.hook \o DotExtension, "returned", Hosts),
     Module(Name.package \o Dot \o Name.nest \o Dot \o Name.hook \o DotExtension,
            "returned", Hosts),
     Module(Name.package \o Dot \o Name.boom \o DotExtension, "returned", Failing),
     Module(Name.package \o Dot \o Name.bad \o DotExtension, "ValueError", NoFactory)}

Modules ==
    {Module(CurrentPrefix \o Path.hosts, "returned", Hosts),
     Module(CurrentPrefix \o Path.contrib_x, "returned", Admin_actions),
     Module(CurrentPrefix \o Path.s_hosts, "returned", Hosts),
     Module(Path.broken, "ValueError", NoFactory)}
    \cup PackageModules

import_class(path) ==
    IF \E m \in Modules : m.path = path
    THEN CHOOSE m \in Modules : m.path = path
    ELSE Module(path, "ImportError", NoFactory)

\* The identifiers of factories: a dotted path or the callable itself.
Str(path) == [tag |-> "str", path |-> path, factory |-> NoFactory]

Callable(factory) == [tag |-> "callable", path |-> <<>>, factory |-> factory]

Identifiers ==
    {Callable(Admin_actions), Callable(Failing), Callable(Exiting),
     Str(DeprecatedPrefix \o Path.hosts), Str(CurrentPrefix \o Path.hosts),
     Str(DeprecatedPrefix \o Path.contrib_x), Str(DeprecatedPrefix \o Path.s_hosts),
     Str(Path.missing), Str(Path.broken)}

\* A call an operation makes, as callLog keeps it: what was called, the
\* path or identifier it was called for, the factory resolved or called,
\* the arguments, how the call ended, and the aliases registered when it
\* ended.  The loaders of the manager log the calls "import_class",
\* "factory" and "load_extension"; load_standard_extensions logs each
\* directory of os.walk, with its relative package and file names, the
\* resolution of the extension hook of a subdirectory and the hook's call.
Event(call, ident, factory, args, raised, registered) ==
    [call |-> call, ident |-> ident, factory |-> factory, args |-> args,
     raised |-> raised, registered |-> registered]

\* A mutant of LoadExtensionOn: the factory's exception is swallowed.
LoadExtensionOn_swallows(mgr, ext_factory) ==
    LET path == IF startswith(ext_factory.path, DeprecatedPrefix)
                THEN replace(ext_factory.path, Contrib, LegacyContrib)
                ELSE ext_factory.path
        m == IF ext_factory.tag = "str" THEN import_class(path)
             ELSE Module(<<>>, "returned", ext_factory.factory)
        r == CallFactoryOn(mgr, m.factory.registers, m.factory.raises)
        imports == IF ext_factory.tag = "str"
                   THEN <<Event("import_class", Str(path), m.factory,
                                <<>>, m.raises, <<>>)>>
                   ELSE <<>>
    IN  IF m.raises # "returned"
        THEN [mgr |-> mgr, raised |-> m.raises, log |-> imports]
        ELSE [mgr |-> r.mgr, raised |-> "returned",
              log |-> imports
                      \o <<Event("factory", Str(<<>>), m.factory,
                                 <<"self">>, r.raised, <<>>)>>]

\* load_extension(ext_factory) on a manager: the manager after it, how it
\* ended and the calls it made.
LoadExtensionOn(mgr, ext_factory) ==
    LET path == IF startswith(ext_factory.path, DeprecatedPrefix)
                THEN replace(ext_factory.path, Contrib, LegacyContrib)
                ELSE ext_factory.path
        m == IF ext_factory.tag = "str" THEN import_class(path)
             ELSE Module(<<>>, "returned", ext_factory.factory)
        r == CallFactoryOn(mgr, m.factory.registers, m.factory.raises)
        imports == IF ext_factory.tag = "str"
                   THEN <<Event("import_class", Str(path), m.factory,
                                <<>>, m.raises, <<>>)>>
                   ELSE <<>>
    IN  IF m.raises # "returned"
        THEN [mgr |-> mgr, raised |-> m.raises, log |-> imports]
        ELSE [mgr |-> r.mgr, raised |-> r.raised,
              log |-> imports
                      \o <<Event("factory", Str(<<>>), m.factory,
                                 <<"self">>, r.raised, <<>>)>>]

\* A mutant of LoadExtensionsOn: the loop ends at the first failure.
RECURSIVE LoadExtensionsOn_stops(_, _, _)
LoadExtensionsOn_stops(mgr, cls_list, log) ==
    IF cls_list = <<>>
    THEN [mgr |-> mgr, raised |-> "returned", log |-> log]
    ELSE LET r == LoadExtensionOn(mgr, Head(cls_list))
             ev == Event("load_extension", Head(cls_list), NoFactory, <<>>,
                         r.raised, Firsts(r.mgr.extensions))
         IN  IF r.raised = "returned"
             THEN LoadExtensionsOn_stops(r.mgr, Tail(cls_list),
                                         log \o <<ev>> \o r.log)
             ELSE IF IsSubclass(r.raised, "Exception")
             THEN [mgr |-> r.mgr, raised |-> "returned",
                   log |-> log \o <<ev>> \o r.log]
             ELSE [mgr |-> r.mgr, raised |-> r.raised,
                   log |-> log \o <<ev>> \o r.log]

\* _load_extensions() on a manager, from the identifiers of cls_list still
\* to load and the calls made so far: the loop, which an exception that is
\* no Exception leaves.
RECURSIVE LoadExtensionsOn(_, _, _)
LoadExtensionsOn(mgr, cls_list, log) ==
    IF cls_list = <<>>
    THEN [mgr |-> mgr, raised |-> "returned", log |-> log]
    ELSE LET r == LoadExtensionOn(mgr, Head(cls_list))
             ev == Event("load_extension", Head(cls_list), NoFactory, <<>>,
                         r.raised, Firsts(r.mgr.extensions))
         IN  IF r.raised = "returned" \/ IsSubclass(r.raised, "Exception")
             THEN LoadExtensionsOn(r.mgr, Tail(cls_list),
                                   log \o <<ev>> \o r.log)
             ELSE [mgr |-> r.mgr, raised |-> r.raised,
                   log |-> log \o <<ev>> \o r.log]

\* A mutant of Becomes: a loader that ends with an exception leaves the
\* manager empty.
Becomes_empty_on_failure(r) ==
    /\ extensions' = IF r.raised = "returned" THEN r.mgr.extensions ELSE <<>>
    /\ sorted_ext_list' = r.mgr.sorted_ext_list
    /\ lastEvent' = IF r.mgr.extensions # extensions THEN "registered"
                    ELSE lastEvent
    /\ outcome' = r.raised
    /\ callLog' = r.log

\* The manager takes over what an operator made of it.
Becomes(r) ==
    /\ extensions' = r.mgr.extensions
    /\ sorted_ext_list' = r.mgr.sorted_ext_list
    /\ lastEvent' = IF r.mgr.extensions # extensions THEN "registered"
                    ELSE lastEvent
    /\ outcome' = r.raised
    /\ callLog' = r.log

\* load_extension(ext_factory).
load_extension(ext_factory) ==
    /\ \E r \in {LoadExtensionOn(Mgr(extensions, sorted_ext_list),
                                ext_factory)} : Becomes(r)
    /\ op' = "load_extension"
    /\ arg' = ext_factory
    /\ retval' = <<>>
    /\ UNCHANGED <<wcall, acall, race>>

\* The identifiers of the lists cls_list is set to, and the lists.
ListedIdentifiers ==
    {Callable(Admin_actions), Callable(Failing), Callable(Exiting),
     Str(DeprecatedPrefix \o Path.hosts), Str(Path.missing)}

ClsLists ==
    UNION { [1..n -> ListedIdentifiers] : n \in 0..MaxList }

\* _load_extensions(), cls_list being what the manager was configured with.
_load_extensions(cls_list) ==
    /\ \E r \in {LoadExtensionsOn(Mgr(extensions, sorted_ext_list), cls_list,
                                 <<>>)} : Becomes(r)
    /\ op' = "_load_extensions"
    /\ arg' = cls_list
    /\ retval' = <<>>
    /\ UNCHANGED <<wcall, acall, race>>

(***************************************************************************)
(* load_standard_extensions                                                *)
(*                                                                         *)
(* A directory is the record of its name, the names of its files and its   *)
(* subdirectories, each in the order os.walk lists them.                   *)
(***************************************************************************)
Dir(name, files, dirs) == [name |-> name, files |-> files, dirs |-> dirs]

\* os.path.splitext(fname): the name is cut before its last dot, unless
\* only dots come before that dot.
splitext(fname) ==
    LET dots == {i \in 1..Len(fname) : <<fname[i]>> = Dot}
        dot == IF dots = {} THEN 0
               ELSE CHOOSE i \in dots : \A j \in dots : j <= i
    IN  IF dot > 0 /\ \E k \in 1..(dot - 1) : <<fname[k]>> # Dot
        THEN <<SubSeq(fname, 1, dot - 1), SubSeq(fname, dot, Len(fname))>>
        ELSE <<fname, <<>>>>

\* str.upper() of one character.
upper(c) == IF c \in 97..122 THEN c - 32 ELSE c

\* A mutant of classname: every character is upper-cased.
classname_all_upper(root) == [i \in 1..Len(root) |-> upper(root[i])]

\* classname: "{0!s}{1!s}".format(root[0].upper(), root[1:]).
classname(root) == <<upper(Head(root))>> \o Tail(root)

\* classpath.
classpath(package, relpkg, root) ==
    package \o relpkg \o Dot \o root \o Dot \o classname(root)

\* A mutant of HasInit: every subdirectory counts as a package.
HasInit_always(d) == TRUE

\* os.path.exists(os.path.join(dirpath, dname, '__init__.py')).
HasInit(d) == \E i \in 1..Len(d.files) : d.files[i] = InitPy

\* The loop over the files of a directory, from the names still to
\* consider.
RECURSIVE LoadFiles(_, _, _, _, _, _)
LoadFiles(mgr, package, relpkg, filenames, ext_list, log) ==
    IF filenames = <<>>
    THEN [mgr |-> mgr, raised |-> "returned", log |-> log]
    ELSE LET Load(ext_factory, r) ==
                 LET ev == Event("load_extension", ext_factory, NoFactory,
                                 <<>>, r.raised, Firsts(r.mgr.extensions))
                 IN  IF r.raised = "returned"
                          \/ IsSubclass(r.raised, "Exception")
                     THEN LoadFiles(r.mgr, package, relpkg, Tail(filenames),
                                    ext_list, log \o <<ev>> \o r.log)
                     ELSE [mgr |-> r.mgr, raised |-> r.raised,
                           log |-> log \o <<ev>> \o r.log]
             Consider(root, ext) ==
                 IF ext # DotPy \/ root = Init__
                 THEN \* Skip __init__ and anything that's not .py
                      LoadFiles(mgr, package, relpkg, Tail(filenames),
                                ext_list, log)
                 ELSE IF ext_list.tag # "none"
                           /\ classname(root) \notin ext_list.val
                 THEN LoadFiles(mgr, package, relpkg, Tail(filenames),
                                ext_list, log)
                 ELSE Load(Str(classpath(package, relpkg, root)),
                           LoadExtensionOn(
                               mgr, Str(classpath(package, relpkg, root))))
             Split(parts) == Consider(parts[1], parts[2])
         IN  Split(splitext(Head(filenames)))

\* A mutant of ConsiderDirs: a subdirectory whose hook was called is
\* explored as well.
RECURSIVE ConsiderDirs_keeps_delegated(_, _, _, _, _, _)
ConsiderDirs_keeps_delegated(mgr, package, relpkg, dirnames, subdirs, log) ==
    IF dirnames = <<>>
    THEN [mgr |-> mgr, raised |-> "returned", log |-> log,
          subdirs |-> subdirs]
    ELSE LET d == Head(dirnames)
             ext_name == package \o relpkg \o Dot \o d.name \o DotExtension
             Call(m, imp, r) ==
                 LET ev == Event("ext(ext_mgr)", Str(ext_name), m.factory,
                                 <<"ext_mgr">>, r.raised, <<>>)
                 IN  IF r.raised = "returned"
                          \/ IsSubclass(r.raised, "Exception")
                     THEN ConsiderDirs_keeps_delegated(
                              r.mgr, package, relpkg, Tail(dirnames),
                              Append(subdirs, d), log \o <<imp, ev>>)
                     ELSE [mgr |-> r.mgr, raised |-> r.raised,
                           log |-> log \o <<imp, ev>>, subdirs |-> subdirs]
             Resolve(m, imp) ==
                 IF IsSubclass(m.raises, "ImportError")
                 THEN
                  ConsiderDirs_keeps_delegated(
                          mgr, package, relpkg, Tail(dirnames),
                          Append(subdirs, d), log \o <<imp>>)
                 ELSE IF m.raises # "returned"
                 THEN [mgr |-> mgr, raised |-> m.raises,
                       log |-> log \o <<imp>>, subdirs |-> subdirs]
                 ELSE Call(m, imp,
                           CallFactoryOn(mgr, m.factory.registers,
                                         m.factory.raises))
             Import(m) == Resolve(m,
                     Event("import_class(ext_name)", Str(ext_name), m.factory,
                           <<>>, m.raises, <<>>))
         IN  IF ~HasInit(d)
             THEN
                  ConsiderDirs_keeps_delegated(
                      mgr, package, relpkg, Tail(dirnames), subdirs, log)
             ELSE Import(import_class(ext_name))

\* The loop over the subdirectories of a directory, from those still to
\* consider and the list subdirs made so far.
RECURSIVE ConsiderDirs(_, _, _, _, _, _)
ConsiderDirs(mgr, package, relpkg, dirnames, subdirs, log) ==
    IF dirnames = <<>>
    THEN [mgr |-> mgr, raised |-> "returned", log |-> log,
          subdirs |-> subdirs]
    ELSE LET d == Head(dirnames)
             ext_name == package \o relpkg \o Dot \o d.name \o DotExtension
             Call(m, imp, r) ==
                 LET ev == Event("ext(ext_mgr)", Str(ext_name), m.factory,
                                 <<"ext_mgr">>, r.raised, <<>>)
                 IN  IF r.raised = "returned"
                          \/ IsSubclass(r.raised, "Exception")
                     THEN ConsiderDirs(
                              r.mgr, package, relpkg, Tail(dirnames),
                              subdirs, log \o <<imp, ev>>)
                     ELSE [mgr |-> r.mgr, raised |-> r.raised,
                           log |-> log \o <<imp, ev>>, subdirs |-> subdirs]
             Resolve(m, imp) ==
                 IF IsSubclass(m.raises, "ImportError")
                 THEN
                  \* extension() doesn't exist on it, so we'll explore
                  \* the directory for ourselves
                  ConsiderDirs(
                          mgr, package, relpkg, Tail(dirnames),
                          Append(subdirs, d), log \o <<imp>>)
                 ELSE IF m.raises # "returned"
                 THEN [mgr |-> mgr, raised |-> m.raises,
                       log |-> log \o <<imp>>, subdirs |-> subdirs]
                 ELSE Call(m, imp,
                           CallFactoryOn(mgr, m.factory.registers,
                                         m.factory.raises))
             Import(m) == Resolve(m,
                     Event("import_class(ext_name)", Str(ext_name), m.factory,
                           <<>>, m.raises, <<>>))
         IN  IF ~HasInit(d)
             THEN
                  \* Skip it if it does not have __init__.py
                  ConsiderDirs(
                      mgr, package, relpkg, Tail(dirnames), subdirs, log)
             ELSE Import(import_class(ext_name))

\* os.walk, top down, with the body of the loop: a directory, then the
\* subdirectories the body left in dirnames, each with all below it.
RECURSIVE Walk(_, _, _, _, _, _)
RECURSIVE WalkEach(_, _, _, _, _, _)
Walk(mgr, package, relpkg, dir, ext_list, log) ==
    LET Dirs(c) ==
            IF c.raised # "returned"
            THEN [mgr |-> c.mgr, raised |-> c.raised, log |-> c.log]
            ELSE WalkEach(c.mgr, package, relpkg, c.subdirs, ext_list, c.log)
        Files(f) ==
            IF f.raised # "returned" THEN f
            ELSE Dirs(ConsiderDirs(f.mgr, package, relpkg, dir.dirs, <<>>,
                                   f.log))
    IN  Files(LoadFiles(mgr, package, relpkg, dir.files, ext_list,
                        log \o <<Event("os.walk", Str(relpkg), NoFactory,
                                       dir.files, "returned", <<>>)>>))

WalkEach(mgr, package, relpkg, subdirs, ext_list, log) ==
    IF subdirs = <<>>
    THEN [mgr |-> mgr, raised |-> "returned", log |-> log]
    ELSE LET Rest(w) ==
                 IF w.raised # "returned" THEN w
                 ELSE WalkEach(w.mgr, package, relpkg, Tail(subdirs),
                               ext_list, w.log)
         IN  Rest(Walk(mgr, package, relpkg \o Dot \o Head(subdirs).name,
                       Head(subdirs), ext_list, log))

\* The directories under the one load_standard_extensions is pointed at.
SubDirs ==
    {Dir(Name.plain, <<InitPy, Name.foo_py>>, <<>>),
     Dir(Name.noinit, <<Name.foo_py>>, <<>>),
     Dir(Name.hook, <<InitPy, Name.foo_py>>, <<Dir(Name.plain, <<InitPy, Name.foo_py>>, <<>>)>>),
     Dir(Name.nest, <<InitPy>>, <<Dir(Name.hook, <<InitPy, Name.foo_py>>, <<>>)>>),
     Dir(Name.boom, <<InitPy, Name.foo_py>>, <<>>),
     Dir(Name.bad, <<InitPy>>, <<>>)}

\* The lists of its files and of its subdirectories, and the trees.
FileLists ==
    {<<InitPy, Name.foo_py>>, <<Name.foo_py, Name.notes_txt, Name.bar_py>>, <<Name.exit_py, Name.foo_py>>}

DirLists ==
    {<<>>} \cup {<<d>> : d \in SubDirs}
    \cup UNION { {<<d, e>> : e \in {f \in SubDirs :
                                      f.name \in {Name.plain, Name.hook} /\ f # d}} :
                  d \in SubDirs }

Trees == {Dir(<<>>, files, dirs) : files \in FileLists, dirs \in DirLists}

\* The values of ext_list: None, or the class names allowed.
ExtLists == {None, Val({Name.Foo})}

\* load_standard_extensions(ext_mgr, logger, path, package, ext_list),
\* path[0] being the root of the tree.
load_standard_extensions(tree, package, ext_list) ==
    /\ \E r \in {Walk(Mgr(extensions, sorted_ext_list), package, <<>>, tree,
                      ext_list, <<>>)} : Becomes(r)
    /\ op' = "load_standard_extensions"
    /\ arg' = [tree |-> tree, package |-> package, ext_list |-> ext_list]
    /\ retval' = <<>>
    /\ UNCHANGED <<wcall, acall, race>>

(***************************************************************************)
(* ExtensionsController                                                    *)
(***************************************************************************)
\* ext.__doc__: the docstring of the class of the extension, None for a
\* class that has none; every object has the attribute.
DocStr == <<7>>

Doc(e) == IF e.cls = "duck" THEN None ELSE Val(DocStr)

\* _translate(ext): the dict, or the AttributeError of the first attribute
\* the extension does not have.
_translate(e) ==
    IF \E attr \in {"name", "alias", "namespace", "updated"} :
           e[attr].tag = "absent"
    THEN [outcome |-> "AttributeError", val |-> <<>>]
    ELSE [outcome |-> "returned",
          val |-> [name |-> e.name, alias |-> e.alias,
                   description |-> Doc(e), namespace |-> e.namespace,
                   updated |-> e.updated, links |-> <<>>]]

\* The loop of index over the extensions.
RECURSIVE TranslateEach(_, _)
TranslateEach(exts, translated) ==
    IF exts = <<>> THEN [outcome |-> "returned", val |-> translated]
    ELSE IF _translate(Head(exts)).outcome # "returned"
    THEN [outcome |-> _translate(Head(exts)).outcome, val |-> <<>>]
    ELSE TranslateEach(Tail(exts),
                       Append(translated, _translate(Head(exts)).val))

\* index(req).
index ==
    /\ ReadSortedView
    /\ op' = "index"
    /\ arg' = NoArg
    /\ outcome' = TranslateEach(Seconds(SortedItems), <<>>).outcome
    /\ retval' = [extensions |->
                    TranslateEach(Seconds(SortedItems), <<>>).val]
    /\ UNCHANGED <<wcall, acall, callLog, race>>

\* show(req, id).
show(id) ==
    /\ op' = "show"
    /\ arg' = Val(id)
    /\ IF id \notin Keys(extensions)
       THEN \* except KeyError: raise webob.exc.HTTPNotFound()
            /\ outcome' = "HTTPNotFound"
            /\ retval' = [extension |-> <<>>]
       ELSE /\ outcome' = _translate(Lookup(extensions, id)).outcome
            /\ retval' =
                 [extension |-> _translate(Lookup(extensions, id)).val]
    /\ UNCHANGED <<extensions, sorted_ext_list, lastEvent, wcall, acall,
                   callLog, race>>

\* A mutant of delete: the extension of that alias is removed.
delete_removes(id) ==
    /\ op' = "delete"
    /\ arg' = Val(id)
    /\ outcome' = IF id \in Keys(extensions) THEN "returned"
                  ELSE "HTTPNotFound"
    /\ retval' = <<>>
    /\ extensions' = SelectSeq(extensions, LAMBDA x : x[1] # id)
    /\ sorted_ext_list' = None
    /\ UNCHANGED <<lastEvent, wcall, acall, callLog, race>>

\* delete(req, id).
delete(id) ==
    /\ op' = "delete"
    /\ arg' = Val(id)
    /\ outcome' = "HTTPNotFound"
    /\ retval' = <<>>
    /\ UNCHANGED <<extensions, sorted_ext_list, lastEvent, wcall, acall,
                   callLog, race>>

\* create(req, body).
create(body) ==
    /\ op' = "create"
    /\ arg' = Val(body)
    /\ outcome' = "HTTPNotFound"
    /\ retval' = <<>>
    /\ UNCHANGED <<extensions, sorted_ext_list, lastEvent, wcall, acall,
                   callLog, race>>

(***************************************************************************)
(* register and sorted_extensions in two threads                           *)
(***************************************************************************)
\* No thread has entered its call.
NoRace ==
    [reg |-> [pc |-> "idle", ext |-> NoArg, outcome |-> "none"],
     srt |-> [pc |-> "idle", items |-> <<>>, outcome |-> "none",
              yielded |-> <<>>]]

\* The next statement of register(ext) in its thread: each statement reads
\* or writes the manager once.
register_thread(e) ==
    /\ race.reg.pc # "done"
    /\ IF race.reg.pc = "idle" THEN Len(extensions) < MaxExts
       ELSE e = race.reg.ext
    /\ CASE race.reg.pc = "idle" ->
              \* if not self._check_extension(ext): return
              /\ race' = [race EXCEPT !.reg =
                            IF _check_extension(e)
                            THEN [pc |-> "test", ext |-> e,
                                  outcome |-> "none"]
                            ELSE [pc |-> "done", ext |-> e,
                                  outcome |-> "returned"]]
              /\ UNCHANGED <<extensions, sorted_ext_list, lastEvent>>
         [] race.reg.pc = "test" ->
              \* if alias in self.extensions: raise
              /\ race' = [race EXCEPT !.reg =
                            IF e.alias.val \in Keys(extensions)
                            THEN [pc |-> "done", ext |-> e,
                                  outcome |-> "NovaException"]
                            ELSE [pc |-> "store", ext |-> e,
                                  outcome |-> "none"]]
              /\ UNCHANGED <<extensions, sorted_ext_list, lastEvent>>
         [] race.reg.pc = "store" ->
              \* self.extensions[alias] = ext
              /\ extensions' = Append(extensions, <<e.alias.val, e>>)
              /\ lastEvent' = "registered"
              /\ race' = [race EXCEPT !.reg.pc = "invalidate"]
              /\ UNCHANGED sorted_ext_list
         [] race.reg.pc = "invalidate" ->
              \* self.sorted_ext_list = None
              /\ sorted_ext_list' = None
              /\ race' = [race EXCEPT !.reg.pc = "done",
                                      !.reg.outcome = "returned"]
              /\ UNCHANGED <<extensions, lastEvent>>
    /\ UNCHANGED <<op, arg, outcome, retval, wcall, acall, callLog>>

\* The next statement of sorted_extensions(), consumed to its end, in its
\* thread: the test of the cache, the call of sorted, the assignment of its
\* result, the read of the cache the loop iterates.
sorted_extensions_thread ==
    /\ race.srt.pc # "done"
    /\ CASE race.srt.pc = "idle" ->
              \* if self.sorted_ext_list is None:
              /\ race' = [race EXCEPT !.srt.pc =
                            IF sorted_ext_list.tag = "none" THEN "sorted"
                            ELSE "iterate"]
              /\ UNCHANGED <<sorted_ext_list, lastEvent>>
         [] race.srt.pc = "sorted" ->
              \* sorted(six.iteritems(self.extensions))
              /\ race' = [race EXCEPT !.srt.pc = "store",
                                      !.srt.items = sorted(extensions)]
              /\ UNCHANGED <<sorted_ext_list, lastEvent>>
         [] race.srt.pc = "store" ->
              \* self.sorted_ext_list = ...
              /\ sorted_ext_list' = Val(race.srt.items)
              /\ race' = [race EXCEPT !.srt.pc = "iterate"]
              /\ UNCHANGED lastEvent
         [] race.srt.pc = "iterate" ->
              \* for _alias, ext in self.sorted_ext_list: yield ext
              /\ race' = [race EXCEPT !.srt =
                            IF sorted_ext_list.tag = "none"
                            THEN [pc |-> "done", items |-> race.srt.items,
                                  outcome |-> "TypeError",
                                  yielded |-> <<>>]
                            ELSE [pc |-> "done", items |-> race.srt.items,
                                  outcome |-> "returned",
                                  yielded |->
                                      Seconds(sorted_ext_list.val)]]
              /\ lastEvent' = "read"
              /\ UNCHANGED sorted_ext_list
    /\ UNCHANGED <<extensions, op, arg, outcome, retval, wcall, acall,
                   callLog>>

(***************************************************************************)
(* tools/xenserver/stress_test.py: test_rebuild                            *)
(*                                                                         *)
(* A command is the record of its verb and of the names formatted into it. *)
(* An operator gives the record of the commands issued in order, the lines *)
(* printed to stderr, the exception raised ("returned" when none) and the  *)
(* value returned.                                                         *)
(***************************************************************************)
Cmd(verb, server_name, snapshot_name) ==
    [verb |-> verb, server_name |-> server_name,
     snapshot_name |-> snapshot_name]

\* What the commands of a run do, by verb: a command exits zero or
\* non-zero, or the subprocess call itself raises OSError; "nova list"
\* prints the status of the server.  At most MaxFaults of them do not go
\* well.
Envs ==
    {env \in [{"boot", "image-create", "rebuild", "image-delete", "delete"}
                 -> {"zero", "non-zero", "OSError"}]
             \X {"ACTIVE", "ERROR", "OSError"} :
        Cardinality({verb \in DOMAIN env[1] : env[1][verb] # "zero"})
          + (IF env[2] # "ACTIVE" THEN 1 ELSE 0) <= MaxFaults}

\* run(cmd).
run(cmd, env) ==
    [cmds |-> <<cmd>>,
     stderr |-> IF env[1][cmd.verb] = "non-zero"
                THEN <<"Command exited non-zero">> ELSE <<>>,
     raised |-> IF env[1][cmd.verb] = "OSError" THEN "OSError"
                ELSE "returned",
     value |-> "None"]

\* What the finally clause of a context manager makes of the outcome of the
\* body of the with statement.
Finally(body, cleanup, deletion) ==
    IF ~cleanup THEN body
    ELSE [cmds |-> body.cmds \o deletion.cmds,
          stderr |-> body.stderr \o deletion.stderr,
          raised |-> IF deletion.raised # "returned" THEN deletion.raised
                     ELSE body.raised,
          value |-> IF deletion.raised # "returned" THEN "None"
                    ELSE body.value]

\* After(first, rest): first ran, and rest after it unless first raised.
After(first, rest) ==
    IF first.raised # "returned" THEN first
    ELSE [cmds |-> first.cmds \o rest.cmds,
          stderr |-> first.stderr \o rest.stderr,
          raised |-> rest.raised, value |-> rest.value]

\* A mutant of server_built: the server is deleted only when the body of
\* the with statement raised nothing.
server_built_no_finally(server_name, cleanup, env, body) ==
    After(run(Cmd("boot", server_name, <<>>), env),
          IF body.raised # "returned" THEN body
          ELSE Finally(body, cleanup,
                       run(Cmd("delete", server_name, <<>>), env)))

\* with server_built(server_name, image_name, cleanup=cleanup): body.
server_built(server_name, cleanup, env, body) ==
    After(run(Cmd("boot", server_name, <<>>), env),
          Finally(body, cleanup, run(Cmd("delete", server_name, <<>>), env)))

\* with snapshot_taken(server_name, snapshot_name, cleanup=cleanup): body.
snapshot_taken(server_name, snapshot_name, cleanup, env, body) ==
    After(run(Cmd("image-create", server_name, snapshot_name), env),
          Finally(body, cleanup,
                  run(Cmd("image-delete", <<>>, snapshot_name), env)))

\* rebuild_server(server_name, snapshot_name).
rebuild_server(server_name, snapshot_name, env) ==
    After(run(Cmd("rebuild", server_name, snapshot_name), env),
          [cmds |-> <<Cmd("list", server_name, <<>>)>>,
           stderr |-> IF env[2] = "ERROR" THEN <<"failed to rebuild">>
                      ELSE <<>>,
           raised |-> IF env[2] = "OSError" THEN "OSError" ELSE "returned",
           value |-> IF env[2] = "OSError" THEN "None"
                     ELSE IF env[2] = "ACTIVE" THEN "True" ELSE "False"])

\* test_rebuild((count, args)), args.cleanup being cleanup.
test_rebuild(count, cleanup, env) ==
    /\ \E r \in {server_built(
                    <<"server", count>>, cleanup, env,
                    snapshot_taken(
                        <<"server", count>>, <<"snap", count>>, cleanup, env,
                        rebuild_server(<<"server", count>>,
                                       <<"snap", count>>, env)))} :
         /\ callLog' = r.cmds
         /\ outcome' = r.raised
         /\ retval' = [value |-> r.value, stderr |-> r.stderr]
    /\ op' = "test_rebuild"
    /\ arg' = [count |-> count, cleanup |-> cleanup, env |-> env]
    /\ UNCHANGED <<extensions, sorted_ext_list, lastEvent, wcall, acall,
                   race>>

(***************************************************************************)
(* The specifications.                                                     *)
(***************************************************************************)
NoCall ==
    [called |-> FALSE, errors |-> CollErrors({}),
     f |-> [kind |-> "returns", exc |-> NoExc], a |-> 0,
     result |-> Result("returned", 0, NoExc, <<>>, FALSE)]

NoAuthCall ==
    [called |-> FALSE, factory |-> "none", api_name |-> <<>>,
     extension_name |-> <<>>, policy |-> Policy("everything", "owner"),
     context |-> Context(0, 0), target |-> None, action |-> None,
     result |-> AuthResult("returned", "None", NoExc, <<>>)]

Init ==
    /\ extensions = <<>>
    /\ sorted_ext_list = None
    /\ op = "none"
    /\ arg = NoArg
    /\ outcome = "returned"
    /\ retval = <<>>
    /\ lastEvent = "init"
    /\ wcall = NoCall
    /\ acall = NoAuthCall
    /\ callLog = <<>>
    /\ race = NoRace

Next ==
    \/ \E e \in ExtObjects : register(e)
    \/ sorted_extensions
    \/ get_resources
    \/ get_controller_extensions

\* The registry.
Spec == Init /\ [][Next]_vars

NextErr ==
    \E errors \in ErrorsArgs, f \in Handlers, a \in 1..MaxArg :
        call_wrapped(errors, f, a)

\* The decorator.
SpecErr == Init /\ [][NextErr]_vars

NextAuth ==
    \/ \E factory \in HardFactories \cup SoftFactories,
          api_name \in ApiNames, extension_name \in ExtensionNames,
          policy \in Policies, context \in Contexts, target \in TargetArgs,
          action \in ActionArgs :
            call_authorizer(factory, api_name, extension_name, policy,
                            context, target, action)
    \/ \E factory \in {"os_compute_authorizer", "os_compute_soft_authorizer"},
          extension_name \in ExtensionNames, policy \in Policies,
          context \in Contexts, target \in TargetArgs,
          action \in ActionArgs :
            call_os_compute_authorizer(factory, extension_name, policy,
                                       context, target, action)

\* The authorizers.
SpecAuth == Init /\ [][NextAuth]_vars

NextLoad ==
    \/ \E ext_factory \in Identifiers : load_extension(ext_factory)
    \/ \E cls_list \in ClsLists : _load_extensions(cls_list)

\* The loaders of the manager.
SpecLoad == Init /\ [][NextLoad]_vars

NextWalk ==
    \E tree \in Trees, ext_list \in ExtLists :
        load_standard_extensions(tree, Name.package, ext_list)

\* The loader of the extensions of a directory tree.
SpecWalk == Init /\ [][NextWalk]_vars

NextList ==
    \/ \E e \in ExtObjects : register(e)
    \/ index
    \/ \E id \in Aliases : show(id)
    \/ \E id \in Aliases : delete(id)
    \/ \E body \in Aliases : create(body)
    \/ \E alias \in Aliases : is_loaded(alias)

\* The registry and its self-listing resource.
SpecList == Init /\ [][NextList]_vars

NextMgr ==
    \/ \E e \in FewExts \cup FalseExts : register(e)
    \/ \E ext_factory \in ListedIdentifiers : load_extension(ext_factory)
    \/ \E cls_list \in {l \in ClsLists : Len(l) <= 1} :
         _load_extensions(cls_list)
    \/ \E tree \in {t \in Trees : t.files = <<InitPy, Name.foo_py>>
                                   /\ Len(t.dirs) <= 1} :
         load_standard_extensions(tree, Name.package, None)
    \/ sorted_extensions
    \/ get_resources
    \/ get_controller_extensions
    \/ index
    \/ \E alias \in Aliases :
         is_loaded(alias) \/ show(alias) \/ delete(alias) \/ create(alias)

\* The manager with every operation on it.
SpecMgr == Init /\ [][NextMgr]_vars

NextStress ==
    \E count \in 0..1, cleanup \in BOOLEAN, env \in Envs :
        test_rebuild(count, cleanup, env)

\* The rebuild test of the stress script.
SpecStress == Init /\ [][NextStress]_vars

NextRace ==
    \/ race = NoRace /\ \E e \in FewExts : register(e)
    \/ /\ race = NoRace \/ (race.reg.pc = "done" /\ race.srt.pc = "done")
       /\ sorted_extensions
    \/ \E e \in FewExts : register_thread(e)
    \/ sorted_extensions_thread

\* The registry, then one register call and one sorted_extensions call in
\* two threads, their statements interleaved, then reads of the sorted view.
SpecRace == Init /\ [][NextRace]_vars

(***************************************************************************)
(* What the claims speak of.                                               *)
(***************************************************************************)
\* The extension objects of the registration map.
RegisteredSet == {extensions[i][2] : i \in 1..Len(extensions)}

\* An extension of one of the two classes misses a required identifying
\* attribute.
MissingRequired(e) ==
    \/ /\ e.cls = "ExtensionDescriptor"
       /\ \E attr \in {"name", "alias", "updated", "namespace"} :
            e[attr].tag # "val"
    \/ /\ e.cls = "V21APIExtensionBase"
       /\ \E attr \in {"name", "alias", "version"} : e[attr].tag # "val"

\* The aliases of a list of extensions ascend strictly.
AscendingAliases(exts) ==
    \A i, j \in 1..Len(exts) :
        i < j => StrLess(exts[i].alias.val, exts[j].alias.val)

\* The list holds exactly the elements of the set, each once.
ListsExactly(list, set) ==
    /\ Len(list) = Cardinality(set)
    /\ {list[i] : i \in 1..Len(list)} = set

\* The orders a dict may hold its items in.
Orderings(d) ==
    { [i \in 1..Len(d) |-> d[p[i]]] :
        p \in { q \in [1..Len(d) -> 1..Len(d)] :
                  \A i, j \in 1..Len(d) : q[i] = q[j] => i = j } }

\* The registered extensions by ascending alias, found without sorting: the
\* one of smallest alias first.
RECURSIVE ByAlias(_)
ByAlias(S) ==
    IF S = {} THEN <<>>
    ELSE LET m == CHOOSE x \in S :
                    \A y \in S \ {x} : StrLess(x.alias.val, y.alias.val)
         IN  <<m>> \o ByAlias(S \ {m})

\* What an extension contributes through a method: the list the method
\* returns, nothing otherwise.
Contribution(e, method) ==
    IF e[method].tag = "returns" THEN e[method].val ELSE <<>>

RECURSIVE Contributions(_, _)
Contributions(exts, method) ==
    IF exts = <<>> THEN <<>>
    ELSE Contribution(Head(exts), method) \o Contributions(Tail(exts), method)

\* The cache goes from None to a list in this step.
Recomputed == sorted_ext_list.tag = "none" /\ sorted_ext_list'.tag = "val"

(***************************************************************************)
(* C1. register(ext2), for a valid ext2 whose alias the map already holds, *)
(* raises NovaException and leaves the map (the first extension under the  *)
(* alias, every other entry) and the sorted-view cache as they were.       *)
(***************************************************************************)
C1_DuplicateRaisesAndKeeps ==
    [][ ( /\ op' = "register"
          /\ is_valid(arg') = "True"
          /\ arg'.alias.val \in Keys(extensions) )
        => ( /\ outcome' = "NovaException"
             /\ extensions' = extensions
             /\ sorted_ext_list' = sorted_ext_list ) ]_vars

\* A second, different extension was refused under the alias of the first,
\* with the cache holding a list.
C1_Witness ==
    /\ op = "register"
    /\ outcome = "NovaException"
    /\ is_valid(arg) = "True"
    /\ arg.alias.val \in Keys(extensions)
    /\ Lookup(extensions, arg.alias.val) # arg
    /\ Len(extensions) = 2
    /\ sorted_ext_list.tag = "val"

(***************************************************************************)
(* C2, as claimed. From an empty map and a cache of None, after any series *)
(* of register and sorted_extensions calls, a sorted_extensions() consumed *)
(* to its end yields exactly the extensions of the map, each once; and the *)
(* cache is recomputed only on the first read after a successful           *)
(* registration.                                                           *)
(***************************************************************************)
C2_RecomputedOnlyAfterRegistration ==
    [][ /\ op' = "sorted_extensions" => ListsExactly(retval', RegisteredSet')
        /\ Recomputed => lastEvent = "registered" ]_vars

(***************************************************************************)
(* C2, amended. ... and the cache is recomputed only on the first read     *)
(* after a successful registration or after construction (the cache the    *)
(* manager starts with being None).                                        *)
(***************************************************************************)
C2_RecomputedOnlyWhenInvalidated ==
    [][ /\ op' = "sorted_extensions" => ListsExactly(retval', RegisteredSet')
        /\ Recomputed => lastEvent \in {"registered", "init"}
        /\ (lastEvent = "read" /\ lastEvent' = "read")
             => sorted_ext_list' = sorted_ext_list ]_vars

\* sorted_extensions() was consumed with two extensions registered, and
\* yielded the two.
C2_Witness ==
    /\ op = "sorted_extensions"
    /\ Len(retval) = 2
    /\ ListsExactly(retval, RegisteredSet)
    /\ lastEvent = "read"

(***************************************************************************)
(* C3. sorted_extensions() yields the registered extensions by strictly    *)
(* ascending alias (Python's string order), whatever the order they were   *)
(* registered in: the sequence depends on the set registered alone.        *)
(***************************************************************************)
C3_AscendingAliasOrder ==
    op = "sorted_extensions" =>
        /\ AscendingAliases(retval)
        /\ retval = ByAlias(RegisteredSet)
        /\ \A d \in Orderings(extensions) : Seconds(sorted(d)) = retval

\* "b" was registered before "a", and "a" is yielded first.
C3_Witness ==
    /\ op = "sorted_extensions"
    /\ Len(extensions) = 2
    /\ extensions[1][1] = <<2>>
    /\ extensions[2][1] = <<1>>
    /\ retval[1].alias.val = <<1>>
    /\ retval[2].alias.val = <<2>>

(***************************************************************************)
(* C4. register(ext) for an extension that misses a required identifying   *)
(* attribute (name, alias, updated, namespace of an ExtensionDescriptor;   *)
(* name, alias, version of a V21APIExtensionBase) returns without raising  *)
(* and leaves the map and the cache as they were; no such extension is in  *)
(* the map, or in what sorted_extensions(), get_resources() and            *)
(* get_controller_extensions() give.                                       *)
(***************************************************************************)
C4_IncompleteIsLeftOut ==
    [][ /\ (op' = "register" /\ MissingRequired(arg'))
          => ( /\ outcome' = "returned"
               /\ extensions' = extensions
               /\ sorted_ext_list' = sorted_ext_list )
        /\ \A e \in RegisteredSet' : ~MissingRequired(e)
        /\ op' = "sorted_extensions"
          => \A i \in 1..Len(retval') : ~MissingRequired(retval'[i])
        /\ op' = "get_resources"
          => \A i \in 2..Len(retval') :
               \E e \in RegisteredSet' :
                 /\ ~MissingRequired(e)
                 /\ \E k \in 1..Len(Contribution(e, "get_resources")) :
                      Contribution(e, "get_resources")[k] = retval'[i]
        /\ op' = "get_controller_extensions"
          => \A i \in 1..Len(retval') :
               \E e \in RegisteredSet' :
                 /\ ~MissingRequired(e)
                 /\ \E k \in 1..Len(Contribution(e, "get_controller_extensions")) :
                      Contribution(e, "get_controller_extensions")[k] = retval'[i]
      ]_vars

\* An ExtensionDescriptor without a namespace was handed to a manager that
\* holds an extension, and register returned.
C4_Witness ==
    /\ op = "register"
    /\ arg.cls = "ExtensionDescriptor"
    /\ arg.namespace.tag = "absent"
    /\ outcome = "returned"
    /\ Len(extensions) = 1
    /\ arg \notin RegisteredSet

(***************************************************************************)
(* C5. Whatever is registered, the list get_resources() returns has the    *)
(* built-in 'extensions' resource first and holds it exactly once.         *)
(***************************************************************************)
C5_BuiltinFirstAndOnce ==
    op = "get_resources" =>
        /\ outcome = "returned"
        /\ Len(retval) >= 1
        /\ retval[1] = ResourceExtension("extensions", Controller(<<>>, 0))
        /\ Cardinality({ i \in 1..Len(retval) :
             retval[i] = ResourceExtension("extensions", Controller(<<>>, 0)) }) = 1

\* get_resources() with two extensions registered, one of which contributes
\* a resource of its own that is also named 'extensions'.
C5_Witness ==
    /\ op = "get_resources"
    /\ Len(extensions) = 2
    /\ \E i \in 2..Len(retval) : retval[i].collection = "extensions"

(***************************************************************************)
(* C6. An extension without get_resources (get_controller_extensions) does *)
(* not make get_resources() (get_controller_extensions()) raise: it counts *)
(* as contributing nothing, and what every other registered extension      *)
(* contributes is aggregated all the same.                                 *)
(***************************************************************************)
C6_MissingMethodIsEmpty ==
    /\ op = "get_resources" =>
         /\ outcome = "returned"
         /\ retval = <<ResourceExtension("extensions", Controller(<<>>, 0))>>
                     \o Contributions(ByAlias(RegisteredSet), "get_resources")
    /\ ( /\ op = "get_controller_extensions"
         /\ \A e \in RegisteredSet : e.get_controller_extensions.tag # "raises" )
       => /\ outcome = "returned"
          /\ retval = Contributions(ByAlias(RegisteredSet),
                                    "get_controller_extensions")

\* get_controller_extensions() with one extension that lacks the method and
\* another whose controller extension is returned.
C6_Witness ==
    /\ op = "get_controller_extensions"
    /\ outcome = "returned"
    /\ \E e \in RegisteredSet : e.get_controller_extensions.tag = "absent"
    /\ Len(retval) = 1

(***************************************************************************)
(* What the claims about expected_errors speak of.                         *)
(***************************************************************************)
\* The codes a decorator's argument declares.
DeclaredCodes(errors) ==
    IF errors.kind = "int" THEN {errors.int} ELSE errors.coll

\* The handler of the last call raised exc.
HandlerRaised(exc) ==
    wcall.called /\ wcall.f.kind = "raises" /\ wcall.f.exc = exc

\* The last call raised the very exception the handler raised.
ReRaisedUnchanged ==
    wcall.result.kind = "raised" /\ wcall.result.exc = wcall.f.exc

\* The last call raised a new HTTPInternalServerError (code 500) made by the
\* wrapper, whose message names the type of the handler's exception.
ReplacedByInternalError ==
    /\ wcall.result.kind = "raised"
    /\ wcall.result.exc.cls = "HTTPInternalServerError"
    /\ wcall.result.exc.code = 500
    /\ wcall.result.exc.oid = 0
    /\ wcall.result.exc.explanation = wcall.f.exc.cls

\* The exception is one the claims call passed through: a transport-level
\* error of a declared code, a Forbidden or a ValidationError.
PassedThrough(errors, exc) ==
    \/ /\ IsSubclass(exc.cls, "WSGIHTTPException")
       /\ exc.code \in DeclaredCodes(errors)
    \/ IsSubclass(exc.cls, "Forbidden")
    \/ IsSubclass(exc.cls, "ValidationError")

\* No transport-level error of an undeclared code other than 500 leaves the
\* wrapper.
NoUndeclaredCodeEscapes ==
    ( /\ wcall.called
      /\ wcall.result.kind = "raised"
      /\ IsSubclass(wcall.result.exc.cls, "WSGIHTTPException")
      /\ wcall.result.exc.code \notin DeclaredCodes(wcall.errors) )
    => wcall.result.exc.code = 500

(***************************************************************************)
(* C7. Whatever codes are declared (none included), a Forbidden (or an     *)
(* exception of a subclass, such as PolicyNotAuthorized) or a              *)
(* ValidationError raised by the handler is re-raised unchanged, never     *)
(* replaced by the internal-server error.                                  *)
(***************************************************************************)
C7_ForbiddenAndValidationPass ==
    \A exc \in {wcall.f.exc} :
        ( /\ HandlerRaised(exc)
          /\ \/ IsSubclass(exc.cls, "Forbidden")
             \/ IsSubclass(exc.cls, "ValidationError") )
        => ReRaisedUnchanged

\* A PolicyNotAuthorized came through a wrapper that declares no code.
C7_Witness ==
    /\ wcall.called
    /\ wcall.errors = CollErrors({})
    /\ wcall.f.kind = "raises"
    /\ wcall.f.exc.cls = "PolicyNotAuthorized"
    /\ ReRaisedUnchanged

(***************************************************************************)
(* C8, as claimed. Any exception the handler raises other than a           *)
(* transport-level error of a declared code, a Forbidden or a              *)
(* ValidationError is replaced by a new HTTPInternalServerError (500)      *)
(* whose message names the type of the original; the outward type changes  *)
(* on this path alone, and no transport-level error of an undeclared code  *)
(* other than 500 leaves the wrapper.                                      *)
(***************************************************************************)
C8_EveryOtherExceptionReplaced ==
    /\ \A exc \in {wcall.f.exc} :
         (HandlerRaised(exc) /\ ~PassedThrough(wcall.errors, exc))
         => ReplacedByInternalError
    /\ \A exc \in {wcall.f.exc} :
         (HandlerRaised(exc) /\ PassedThrough(wcall.errors, exc))
         => ReRaisedUnchanged
    /\ NoUndeclaredCodeEscapes

(***************************************************************************)
(* C8, amended. Any exception derived from Exception that the handler      *)
(* raises, other than a transport-level error of a declared code, a        *)
(* Forbidden or a ValidationError, is replaced by a new                    *)
(* HTTPInternalServerError (500) whose message names the type of the       *)
(* original; every other exception, one that does not derive from          *)
(* Exception (SystemExit, KeyboardInterrupt) included, leaves the wrapper  *)
(* unchanged; and no transport-level error of an undeclared code other     *)
(* than 500 leaves the wrapper.                                            *)
(***************************************************************************)
C8_OtherExceptionsReplaced ==
    /\ \A exc \in {wcall.f.exc} :
         ( /\ HandlerRaised(exc)
           /\ IsSubclass(exc.cls, "Exception")
           /\ ~PassedThrough(wcall.errors, exc) )
         => ReplacedByInternalError
    /\ \A exc \in {wcall.f.exc} :
         ( /\ HandlerRaised(exc)
           /\ \/ PassedThrough(wcall.errors, exc)
              \/ ~IsSubclass(exc.cls, "Exception") )
         => ReRaisedUnchanged
    /\ NoUndeclaredCodeEscapes

\* The handler's own HTTPInternalServerError, 500 not being declared, was
\* replaced by the wrapper's.
C8_Witness ==
    /\ wcall.called
    /\ wcall.errors = IntErrors(404)
    /\ wcall.f.kind = "raises"
    /\ wcall.f.exc.cls = "HTTPInternalServerError"
    /\ ReplacedByInternalError
    /\ wcall.result.exc # wcall.f.exc

(***************************************************************************)
(* C9. A transport-level error whose code is declared is re-raised         *)
(* unchanged, and declaring the single int c is the same as declaring the  *)
(* collection that holds c alone.                                          *)
(***************************************************************************)
C9_DeclaredCodePasses ==
    /\ \A exc \in {wcall.f.exc} :
         ( /\ HandlerRaised(exc)
           /\ IsSubclass(exc.cls, "WSGIHTTPException")
           /\ exc.code \in DeclaredCodes(wcall.errors) )
         => ReRaisedUnchanged
    /\ (wcall.called /\ wcall.errors.kind = "int")
         => wcall.result =
              wrapped(CollErrors({wcall.errors.int}), wcall.f, wcall.a)

\* An HTTPBadRequest came through a wrapper declared with the int 400.
C9_Witness ==
    /\ wcall.called
    /\ wcall.errors = IntErrors(400)
    /\ wcall.f.kind = "raises"
    /\ wcall.f.exc.cls = "HTTPBadRequest"
    /\ ReRaisedUnchanged

(***************************************************************************)
(* C10. A call of the wrapper calls the handler exactly once, with the     *)
(* caller's argument, whether the handler returns or raises; when it       *)
(* returns, the wrapper returns that very value and raises nothing.        *)
(***************************************************************************)
C10_HandlerCalledOnce ==
    wcall.called =>
        /\ wcall.result.calls = <<wcall.a>>
        /\ wcall.f.kind = "returns"
             => /\ wcall.result.kind = "returned"
                /\ wcall.result.value = HandlerValue(wcall.a)
                /\ wcall.result.exc = NoExc

\* A handler that raised KeyError was called once and not again.
C10_Witness ==
    /\ wcall.called
    /\ wcall.f.kind = "raises"
    /\ wcall.f.exc.cls = "KeyError"
    /\ wcall.result.calls = <<wcall.a>>
    /\ wcall.result.kind = "raised"

(***************************************************************************)
(* The authorizers: what the claims speak of.                              *)
(***************************************************************************)
\* What the raising closure of the same generation, api name and extension
\* name comes to under the inputs and the policy of the last call.
HardResult ==
    CASE acall.factory \in {"core_authorizer", "soft_core_authorizer"} ->
           authorize(core_authorizer(acall.api_name, acall.extension_name),
                     acall.policy, acall.context, acall.target, acall.action)
      [] acall.factory \in
           {"extension_authorizer", "soft_extension_authorizer"} ->
           authorize(
               extension_authorizer(acall.api_name, acall.extension_name),
               acall.policy, acall.context, acall.target, acall.action)
      [] OTHER ->
           authorize(os_compute_authorizer(acall.extension_name),
                     acall.policy, acall.context, acall.target, acall.action)

\* The last call was of a boolean closure.
SoftCalled ==
    /\ acall.called
    /\ acall.factory \in SoftFactories \cup {"os_compute_soft_authorizer"}

\* The api part of the permission string of the last call's closure.
ApiPart ==
    CASE acall.factory \in {"core_authorizer", "soft_core_authorizer"} ->
           acall.api_name
      [] acall.factory \in
           {"extension_authorizer", "soft_extension_authorizer"} ->
           acall.api_name \o <<95, 101, 120, 116, 101, 110, 115, 105, 111,
                               110>>
      [] OTHER ->
           <<111, 115, 95, 99, 111, 109, 112, 117, 116, 101, 95, 97, 112,
             105>>

\* The permission string and the target the last call is to hand to enforce.
ExpectedPermission ==
    IF acall.action = None
    THEN ApiPart \o <<58>> \o acall.extension_name
    ELSE ApiPart \o <<58>> \o acall.extension_name \o <<58>>
           \o acall.action.val

ExpectedTarget ==
    IF acall.target = None
    THEN {<<"project_id", acall.context.project_id>>,
          <<"user_id", acall.context.user_id>>}
    ELSE acall.target.val

\* C11: under the same inputs and the same policy, a boolean closure returns
\* False, raising nothing, exactly when the raising closure of its
\* generation raises Forbidden (or a subclass), and returns True exactly
\* when the raising closure returns.
C11_SoftMirrorsHard ==
    SoftCalled =>
        /\ (acall.result.kind = "returned" /\ acall.result.value = "False")
             <=> (HardResult.kind = "raised"
                    /\ IsSubclass(HardResult.exc.cls, "Forbidden"))
        /\ (acall.result.kind = "returned" /\ acall.result.value = "True")
             <=> HardResult.kind = "returned"

\* A boolean closure of the extension generation returned False where the
\* raising one raises PolicyNotAuthorized.
C11_Witness ==
    /\ SoftCalled
    /\ acall.factory = "soft_extension_authorizer"
    /\ acall.result.value = "False"
    /\ HardResult.kind = "raised"
    /\ HardResult.exc.cls = "PolicyNotAuthorized"

\* C12: when the policy evaluator raises an error that is not Forbidden nor
\* of a subclass of it, the boolean closure raises that same error and
\* returns no boolean.
C12_OnlyForbiddenBecomesFalse ==
    SoftCalled =>
        \A i \in 1..Len(acall.result.enforced) :
            LET raised == acall.result.enforced[i].raised
            IN  (raised # "returned" /\ ~IsSubclass(raised, "Forbidden")) =>
                    /\ acall.result.kind = "raised"
                    /\ acall.result.exc = Exc(raised, 1, "")
                    /\ acall.result.value = "None"

\* The policy evaluator raised NovaException, which Forbidden derives from,
\* in a call of a boolean closure.
C12_Witness ==
    /\ SoftCalled
    /\ Len(acall.result.enforced) = 1
    /\ acall.result.enforced[1].raised = "NovaException"

\* C13: a call of a closure calls enforce once, with the caller's context,
\* the permission string api:feature or api:feature:action (api being the
\* api name, the api name followed by _extension, or os_compute_api), and
\* the caller's target or, none given, the project_id and user_id of the
\* context.
C13_EnforceCalledOnce ==
    acall.called =>
        /\ Len(acall.result.enforced) = 1
        /\ acall.result.enforced[1].context = acall.context
        /\ acall.result.enforced[1].action = ExpectedPermission
        /\ acall.result.enforced[1].target = ExpectedTarget

\* A closure of the extension generation was called with an action, a
\* target that is an empty dict.
C13_Witness ==
    /\ acall.called
    /\ acall.factory = "extension_authorizer"
    /\ acall.action = Val(<<115>>)
    /\ acall.target = Val({})
    /\ Len(acall.result.enforced) = 1

(***************************************************************************)
(* The loaders: what the claims speak of.                                  *)
(***************************************************************************)
\* The calls of one kind among the calls an operation made, in order.
CallsOf(log, call) == SelectSeq(log, LAMBDA ev : ev.call = call)

\* A sequence begins with another.
IsPrefix(a, b) == Len(a) <= Len(b) /\ SubSeq(b, 1, Len(a)) = a

\* A call ended without an exception or with an instance of Exception.
ReturnedOrException(raised) ==
    raised = "returned" \/ IsSubclass(raised, "Exception")

\* Nothing is taken from the registration map between the calls of
\* load_extension an operation made: the aliases registered at the end of
\* each begin with those registered before it, from the map before the
\* operation to the map after it.
RegistrationsStay(before, attempts, after) ==
    /\ IsPrefix(before, after)
    /\ \A i \in 1..Len(attempts) :
         /\ IsPrefix(IF i = 1 THEN Firsts(before)
                     ELSE attempts[i - 1].registered,
                     attempts[i].registered)
         /\ IsPrefix(attempts[i].registered, Firsts(after))

\* C14 as stated: _load_extensions calls load_extension for every identifier
\* of the list once and in list order and raises nothing, whatever a
\* load_extension raised, and what was registered stays registered.
C14_EveryIdentifierAttempted ==
    [][op' = "_load_extensions" =>
         LET attempts == CallsOf(callLog', "load_extension")
         IN  /\ [i \in 1..Len(attempts) |-> attempts[i].ident] = arg'
             /\ outcome' = "returned"
             /\ RegistrationsStay(extensions, attempts, extensions')]_vars

\* C14, amended: the same when every failure is an instance of Exception; a
\* failure that is not one (SystemExit) ends the loop there and is raised to
\* the caller, what was registered staying registered.
C14_EveryIdentifierAttemptedUnlessExit ==
    [][op' = "_load_extensions" =>
         LET attempts == CallsOf(callLog', "load_extension")
             n == Len(attempts)
         IN  /\ [i \in 1..n |-> attempts[i].ident] = SubSeq(arg', 1, n)
             /\ \A i \in 1..(n - 1) : ReturnedOrException(attempts[i].raised)
             /\ IF \A i \in 1..n : ReturnedOrException(attempts[i].raised)
                THEN n = Len(arg') /\ outcome' = "returned"
                ELSE outcome' = attempts[n].raised
             /\ RegistrationsStay(extensions, attempts, extensions')]_vars

\* _load_extensions went through a list whose first factory fails with
\* KeyError and whose second, resolved from a path, registered "b".
C14_Witness ==
    /\ op = "_load_extensions"
    /\ arg = <<Callable(Failing), Str(DeprecatedPrefix \o Path.hosts)>>
    /\ outcome = "returned"
    /\ Len(CallsOf(callLog, "load_extension")) = 2
    /\ CallsOf(callLog, "load_extension")[1].raised = "KeyError"
    /\ <<2>> \in Keys(extensions)

\* C15: load_extension calls the factory once, with the manager alone: the
\* identifier when it is a callable, the class import_class resolved when it
\* is a string; it raises what the resolution or the factory raised, and
\* calls no factory when the resolution failed.
C15_FactoryCalledOnceNothingSwallowed ==
    op = "load_extension" =>
        LET imports == CallsOf(callLog, "import_class")
            factories == CallsOf(callLog, "factory")
            resolved == imports = <<>> \/ imports[1].raised = "returned"
        IN  /\ Len(imports) = (IF arg.tag = "str" THEN 1 ELSE 0)
            /\ Len(factories) = (IF resolved THEN 1 ELSE 0)
            /\ ~resolved => outcome = imports[1].raised
            /\ resolved =>
                 /\ factories[1].factory =
                      (IF arg.tag = "str" THEN imports[1].factory
                       ELSE arg.factory)
                 /\ factories[1].args = <<"self">>
                 /\ outcome = factories[1].raised
                 /\ factories[1].factory.registers = <<>> =>
                      outcome = factories[1].factory.raises

\* load_extension resolved a path to a class whose constructor failed on a
\* duplicate alias.
C15_Witness ==
    /\ op = "load_extension"
    /\ arg.tag = "str"
    /\ Len(CallsOf(callLog, "factory")) = 1
    /\ outcome = "NovaException"

\* C16 as stated: a path that begins with
\* 'nova.api.openstack.compute.contrib' is resolved with that prefix
\* replaced by 'nova.api.openstack.compute.legacy_v2.contrib' and the rest
\* as given; any other path is resolved as given.
C16_PrefixReplacedRestKept ==
    (op = "load_extension" /\ arg.tag = "str") =>
        LET imports == CallsOf(callLog, "import_class")
            old == <<110, 111, 118, 97, 46, 97, 112, 105, 46, 111, 112, 101,
                     110, 115, 116, 97, 99, 107, 46, 99, 111, 109, 112, 117,
                     116, 101, 46, 99, 111, 110, 116, 114, 105, 98>>
            new == <<110, 111, 118, 97, 46, 97, 112, 105, 46, 111, 112, 101,
                     110, 115, 116, 97, 99, 107, 46, 99, 111, 109, 112, 117,
                     116, 101, 46, 108, 101, 103, 97, 99, 121, 95, 118, 50,
                     46, 99, 111, 110, 116, 114, 105, 98>>
        IN  /\ Len(imports) = 1
            /\ imports[1].ident.path =
                 IF IsPrefix(old, arg.path)
                 THEN new \o SubSeq(arg.path, Len(old) + 1, Len(arg.path))
                 ELSE arg.path

(***************************************************************************)
(* The loader of a directory tree: what the claims speak of.               *)
(***************************************************************************)
\* The places of the directories in the calls of the last operation, and
\* the last call that belongs to the directory at a place.
WalkPlaces == {i \in 1..Len(callLog) : callLog[i].call = "os.walk"}

LastOf(i) ==
    IF \E j \in WalkPlaces : j > i
    THEN (CHOOSE j \in WalkPlaces :
            j > i /\ \A k \in WalkPlaces : k > i => j <= k) - 1
    ELSE Len(callLog)

\* The paths load_extension was called with for the directory at a place.
LoadedPaths(i) ==
    LET loads == CallsOf(SubSeq(callLog, i + 1, LastOf(i)), "load_extension")
    IN  [k \in 1..Len(loads) |-> loads[k].ident.path]

\* A file name ends with '.py'; what comes before; that with its first
\* character upper-cased.
IsPyFile(fname) ==
    /\ Len(fname) > 3
    /\ SubSeq(fname, Len(fname) - 2, Len(fname)) = <<46, 112, 121>>

BaseName(fname) == SubSeq(fname, 1, Len(fname) - 3)

FirstUpper(s) ==
    [k \in 1..Len(s) |->
        IF k = 1 /\ s[k] >= 97 /\ s[k] <= 122 THEN s[k] - 32 ELSE s[k]]

\* The paths of the files of the directory at a place that are to be
\* loaded, in the order of the files.
ToLoad(fname) ==
    /\ IsPyFile(fname)
    /\ BaseName(fname) # <<95, 95, 105, 110, 105, 116, 95, 95>>
    /\ arg.ext_list = None \/ FirstUpper(BaseName(fname)) \in arg.ext_list.val

ExpectedPaths(i) ==
    LET files == SelectSeq(callLog[i].args, ToLoad)
    IN  [k \in 1..Len(files) |->
            arg.package \o callLog[i].ident.path \o <<46>>
              \o BaseName(files[k]) \o <<46>>
              \o FirstUpper(BaseName(files[k]))]

\* The loop over the files of the directory at a place was left by an
\* exception.
FilesLoopLeft(i) ==
    /\ outcome # "returned"
    /\ LastOf(i) = Len(callLog)
    /\ callLog[Len(callLog)].call
         \notin {"import_class(ext_name)", "ext(ext_mgr)"}

\* C17: in every directory it walks, load_standard_extensions calls
\* load_extension once for each file that ends with '.py', is not
\* __init__.py and whose class name the allow-list, if given, holds, with
\* the path package + relative package + base name + base name with its
\* first character upper-cased, and for no other file; where an exception
\* ended the walk in the middle of a directory, this holds of the files up
\* to the one that raised it.
C17_OneLoadPerModuleFile ==
    op = "load_standard_extensions" =>
        \A i \in WalkPlaces :
            IF FilesLoopLeft(i)
            THEN IsPrefix(LoadedPaths(i), ExpectedPaths(i))
            ELSE LoadedPaths(i) = ExpectedPaths(i)

\* A directory with foo.py, notes.txt and bar.py was walked with no
\* allow-list: p.foo.Foo and p.bar.Bar were loaded.
C17_Witness ==
    /\ op = "load_standard_extensions"
    /\ outcome = "returned"
    /\ arg.ext_list = None
    /\ \E i \in WalkPlaces :
         /\ Len(callLog[i].args) = 3
         /\ Len(LoadedPaths(i)) = 2
         /\ LoadedPaths(i)[1] = <<112, 46, 102, 111, 111, 46, 70, 111, 111>>

\* The directories of the tree of the last operation, each with the
\* relative package of the directory it is in.
Nested(tree) ==
    {<<<<>>, tree.dirs[i]>> : i \in 1..Len(tree.dirs)}
    \cup UNION { {<<<<46>> \o tree.dirs[i].name, tree.dirs[i].dirs[j]>> :
                    j \in 1..Len(tree.dirs[i].dirs)} :
                  i \in 1..Len(tree.dirs) }

\* The package of a directory: package + relative package + name.
PackageOf(parent, d) == arg.package \o parent \o <<46>> \o d.name

\* A call was made for what lies in a package or below it: a directory of
\* it was walked, or a file of it loaded.
Explored(pkg) ==
    \E i \in 1..Len(callLog) :
        \/ /\ callLog[i].call = "os.walk"
           /\ \/ arg.package \o callLog[i].ident.path = pkg
              \/ IsPrefix(pkg \o <<46>>, arg.package \o callLog[i].ident.path)
        \/ /\ callLog[i].call = "load_extension"
           /\ IsPrefix(pkg \o <<46>>, callLog[i].ident.path)

\* C18: a subdirectory with an __init__.py whose extension hook resolved
\* has the hook called once, with the manager, and nothing of it or below
\* it is walked or loaded file by file; and in a walk that ran to its end
\* every subdirectory of a walked directory that has an __init__.py and a
\* hook that resolves was treated so.
C18_HookedDirectoryNotWalked ==
    op = "load_standard_extensions" =>
        /\ \A i \in 1..Len(callLog) :
             (callLog[i].call = "import_class(ext_name)"
                /\ callLog[i].raised = "returned") =>
                 LET hook == callLog[i].ident
                     pkg == SubSeq(hook.path, 1, Len(hook.path) - 10)
                     hookCalls ==
                         {j \in 1..Len(callLog) :
                            /\ callLog[j].call = "ext(ext_mgr)"
                            /\ callLog[j].ident = hook}
                 IN  /\ hookCalls = {i + 1}
                     /\ callLog[i + 1].factory = callLog[i].factory
                     /\ callLog[i + 1].args = <<"ext_mgr">>
                     /\ ~Explored(pkg)
        /\ outcome = "returned" =>
             \A n \in Nested(arg.tree) :
                 (/\ \E i \in WalkPlaces : callLog[i].ident.path = n[1]
                  /\ \E k \in 1..Len(n[2].files) :
                       n[2].files[k]
                         = <<95, 95, 105, 110, 105, 116, 95, 95, 46, 112, 121>>
                  /\ import_class(PackageOf(n[1], n[2])
                                    \o <<46, 101, 120, 116, 101, 110, 115,
                                         105, 111, 110>>).raises = "returned")
                 => /\ ~Explored(PackageOf(n[1], n[2]))
                    /\ \E j \in 1..Len(callLog) :
                         /\ callLog[j].call = "ext(ext_mgr)"
                         /\ callLog[j].ident.path =
                              PackageOf(n[1], n[2])
                                \o <<46, 101, 120, 116, 101, 110, 115, 105,
                                     111, 110>>

\* The hook of the directory hook, which has a foo.py and a subdirectory,
\* was called in a walk that ran to its end.
C18_Witness ==
    /\ op = "load_standard_extensions"
    /\ outcome = "returned"
    /\ \E j \in 1..Len(callLog) :
         /\ callLog[j].call = "ext(ext_mgr)"
         /\ callLog[j].ident.path =
              <<112, 46, 104, 111, 111, 107, 46, 101, 120, 116, 101, 110,
                115, 105, 111, 110>>
         /\ callLog[j].raised = "returned"

\* C19 as stated: whatever fails for one candidate, load_standard_extensions
\* raises nothing and goes through every file of the directories it walks.
C19_NoFailureEscapes ==
    op = "load_standard_extensions" =>
        /\ outcome = "returned"
        /\ \A i \in WalkPlaces : LoadedPaths(i) = ExpectedPaths(i)

(***************************************************************************)
(* The self-listing resource: what the claim speaks of.                    *)
(***************************************************************************)
\* The entry of an extension in the listing.
EntryOf(e) ==
    [name |-> e.name, alias |-> e.alias,
     description |-> IF e.cls = "duck" THEN None ELSE Val(<<7>>),
     namespace |-> e.namespace, updated |-> e.updated, links |-> <<>>]

\* C20 as stated: whatever is registered, index returns the entries of the
\* registered extensions, one each, by ascending alias, and show(id) returns
\* the entry of the extension registered under id, or raises HTTPNotFound
\* when, and only when, none is.
C20_ListingOfEveryGeneration ==
    /\ op = "index" =>
         /\ outcome = "returned"
         /\ retval.extensions =
              [i \in 1..Len(ByAlias(RegisteredSet)) |->
                  EntryOf(ByAlias(RegisteredSet)[i])]
    /\ op = "show" =>
         IF \E i \in 1..Len(extensions) : extensions[i][1] = arg.val
         THEN /\ outcome = "returned"
              /\ \E i \in 1..Len(extensions) :
                   /\ extensions[i][1] = arg.val
                   /\ retval.extension = EntryOf(extensions[i][2])
         ELSE outcome = "HTTPNotFound"

(***************************************************************************)
(* create, delete and is_loaded                                            *)
(***************************************************************************)
\* C21: create and delete raise HTTPNotFound in every state of the registry
\* and for every argument, the alias of a registered extension included,
\* and change neither the registration map nor the sorted-view cache.
C21_CreateDeleteNotFound ==
    [][op' \in {"create", "delete"} =>
          /\ outcome' = "HTTPNotFound"
          /\ extensions' = extensions
          /\ sorted_ext_list' = sorted_ext_list]_vars

\* delete was called with the alias of a registered extension while the
\* cache held the sorted view.
C21_Witness ==
    /\ op = "delete"
    /\ arg.val \in Keys(extensions)
    /\ sorted_ext_list.tag = "val"
    /\ outcome = "HTTPNotFound"

C23_RaceLeavesViewCurrent ==
    (race.reg.pc = "done" /\ race.srt.pc = "done") =>
        ListsExactly(Seconds(SortedItems), RegisteredSet)

(***************************************************************************)
(* The aggregations                                                        *)
(***************************************************************************)
\* C25: what get_resources() returns after its built-in first element, and
\* what get_controller_extensions() returns, is the concatenation, by
\* ascending alias of the registered extensions, of what each contributes,
\* the records of one extension in the order it returned them; it is the
\* same for every order the extensions could have been registered in.
C25_AggregationByAliasOnly ==
    /\ op = "get_resources" =>
         /\ Tail(retval) =
              Contributions(ByAlias(RegisteredSet), "get_resources")
         /\ \A d \in Orderings(extensions) :
              retval = <<BuiltinResource>>
                       \o ExtendResources(Seconds(sorted(d)))
    /\ (op = "get_controller_extensions" /\ outcome = "returned") =>
         /\ retval = Contributions(ByAlias(RegisteredSet),
                                   "get_controller_extensions")
         /\ \A d \in Orderings(extensions) :
              /\ ExtendControllers(Seconds(sorted(d))).outcome = "returned"
              /\ ExtendControllers(Seconds(sorted(d))).val = retval

\* get_resources() after "b" was registered before "a", each contributing
\* two resources: those of "a" come first, each pair in its own order.
C25_Witness ==
    /\ op = "get_resources"
    /\ Len(extensions) = 2
    /\ extensions[1][1] = <<2>>
    /\ extensions[2][1] = <<1>>
    /\ Len(retval) = 5
    /\ retval[2] = Res2(<<1>>)[1]
    /\ retval[3] = Res2(<<1>>)[2]
    /\ retval[4] = Res2(<<2>>)[1]

\* C26: with a registered extension whose get_resources and
\* get_controller_extensions exist but raise AttributeError when called,
\* get_controller_extensions() ends as get_resources() ended on the same
\* registration map just before it.
C26_SameOutcomeForFaulty ==
    [][( /\ op = "get_resources"
         /\ op' = "get_controller_extensions"
         /\ extensions' = extensions
         /\ \E e \in RegisteredSet :
              /\ e.get_resources.tag = "raises"
              /\ e.get_controller_extensions.tag = "raises" )
       => outcome' = outcome]_vars

(***************************************************************************)
(* What register accepts, and what stays registered                        *)
(***************************************************************************)
\* C24: register(ext) for an extension whose is_valid() does not return
\* True, be it that it raises AttributeError or that it returns False,
\* returns and leaves the registration map and the cache as they were.
C24_OnlyValidInserted ==
    [][(op' = "register" /\ is_valid(arg') # "True") =>
          /\ outcome' = "returned"
          /\ extensions' = extensions
          /\ sorted_ext_list' = sorted_ext_list]_vars

\* C27: an alias of the registration map stays mapped to the same extension
\* in every step: of register, of the loaders whether they return or raise,
\* and of every read operation.
C27_MapOnlyGrows ==
    [][\A a \in Keys(extensions) :
          /\ a \in Keys(extensions')
          /\ Lookup(extensions', a) = Lookup(extensions, a)]_vars

\* load_extension ended with the NovaException of a duplicate alias on a
\* manager that holds two extensions.
C27_Witness ==
    /\ op = "load_extension"
    /\ outcome = "NovaException"
    /\ Len(extensions) = 2

(***************************************************************************)
(* The subdirectories the loader walks                                     *)
(***************************************************************************)
\* A directory of the tree, given with the relative package of its parent,
\* holds an __init__.py and importing its extension hook ends in
\* ImportError.
Walkable(n) ==
    /\ \E k \in 1..Len(n[2].files) :
         n[2].files[k] = <<95, 95, 105, 110, 105, 116, 95, 95, 46, 112, 121>>
    /\ import_class(PackageOf(n[1], n[2])
                      \o <<46, 101, 120, 116, 101, 110, 115, 105, 111,
                           110>>).raises = "ImportError"

\* The relative packages of the subdirectories to walk, read off the tree:
\* the walkable ones whose parent is the root or is itself to be walked.
ToWalk ==
    {n[1] \o <<46>> \o n[2].name :
        n \in {x \in Nested(arg.tree) :
                 /\ Walkable(x)
                 /\ x[1] # <<>> =>
                      \E y \in Nested(arg.tree) :
                          /\ y[1] = <<>>
                          /\ <<46>> \o y[2].name = x[1]
                          /\ Walkable(y)}}

\* The relative packages of the subdirectories os.walk yielded.
WalkedSubdirs == {callLog[i].ident.path : i \in WalkPlaces} \ {<<>>}

\* C28: load_standard_extensions walks no subdirectory but those with an
\* __init__.py whose extension hook fails to resolve with ImportError, each
\* once, and a walk that ran to its end has walked all of them; nothing in
\* or below a subdirectory without __init__.py, or one whose hook resolved
\* and raised when called, is walked or loaded.
C28_WalkedExactlyUnhookedPackages ==
    op = "load_standard_extensions" =>
        /\ WalkedSubdirs \subseteq ToWalk
        /\ Cardinality(WalkPlaces) = Cardinality(WalkedSubdirs) + 1
        /\ outcome = "returned" => WalkedSubdirs = ToWalk
        /\ \A n \in Nested(arg.tree) :
             ~Walkable(n) => ~Explored(PackageOf(n[1], n[2]))

\* A walk that ran to its end: the hook of the directory boom raised when
\* called and boom was not walked, the directory plain after it was.
C28_Witness ==
    /\ op = "load_standard_extensions"
    /\ outcome = "returned"
    /\ \E j \in 1..Len(callLog) :
         /\ callLog[j].call = "ext(ext_mgr)"
         /\ callLog[j].raised = "KeyError"
    /\ WalkedSubdirs = {<<46, 112, 108, 97, 105, 110>>}
    /\ Len(arg.tree.dirs) = 2

(***************************************************************************)
(* The rebuild test of the stress script                                   *)
(***************************************************************************)
\* The places of the commands of a verb among those the last run issued.
Issued(verb) == {i \in 1..Len(callLog) : callLog[i].verb = verb}

====
